---------------------------- MODULE Spec2Model ----------------------------
(***************************************************************************)
(* Call-session state machine and meeting-slot scheduler of Callflow_AI:   *)
(* backend/scheduler.py (slot calendar, meetings log) and voice_server.py  *)
(* (per-call sessions, the turn handler).                                  *)
(*                                                                         *)
(* Time.  A datetime is an integer number of minutes; day 0 is a Monday,   *)
(* so that Python's datetime.weekday() (Monday=0 .. Sunday=6) of a         *)
(* datetime t is (t \div 1440) % 7.  datetime.now() carries seconds, but   *)
(* every value it is compared with is aligned to a minute, so its floor to *)
(* the minute decides every comparison of the code.                        *)
(*                                                                         *)
(* Strings.  A slot value is a record [ty, fmt, t]: ty says whether the    *)
(* JSON value is a string at all; fmt is "canon" for the zero-padded text  *)
(* that strftime("%Y-%m-%d %H:%M") writes, "loose" for a text that         *)
(* strptime accepts but strftime never writes ("2025-11-18 8:00"), "bad"   *)
(* for a text strptime rejects; t is the datetime the text denotes.        *)
(***************************************************************************)
EXTENDS Integers, Sequences, FiniteSets, TLC

VARIABLES
    now,            \* datetime.now(), floored to the minute
    meetings_log,   \* the file at MEETING_LOG_PATH: [st, data]
    CALL_SESSIONS,  \* voice_server.CALL_SESSIONS: call_sid -> session
    proc,           \* request-handling threads: position and locals
    fn              \* the last call of a scheduler function and its result

vars == <<now, meetings_log, CALL_SESSIONS, proc, fn>>

---------------------------------------------------------------------------
(* Bounds of the model *)

MaxStartDay == 6      \* the clock starts on one of the days 0..MaxStartDay
MaxSlotDay == 21      \* requested slots lie on the days 0..MaxSlotDay
MaxCalls == 1         \* requests a thread serves in one run

---------------------------------------------------------------------------
(* datetime *)

DayOf(t) == t \div 1440
HourOf(t) == (t % 1440) \div 60
MinuteOf(t) == t % 60

\* datetime.weekday(): Monday = 0 .. Sunday = 6
weekday(t) == DayOf(t) % 7

\* datetime.combine(day.date(), time(hour, minute))
combine(day, hour, minute) == DayOf(day) * 1440 + hour * 60 + minute

\* dt.strftime("%Y-%m-%d %H:%M")
strftime(t) == [ty |-> "str", fmt |-> "canon", t |-> t]

\* datetime.strptime(s, "%Y-%m-%d %H:%M") succeeds (no ValueError)
strptime_ok(s) == s.ty = "str" /\ s.fmt \in {"canon", "loose"}

\* the value of datetime.strptime(s, "%Y-%m-%d %H:%M")
strptime(s) == s.t

Range(seq) == {seq[i] : i \in 1..Len(seq)}

---------------------------------------------------------------------------
(* backend/scheduler.py: the meetings log *)

\* load_meetings() raises: the file holds bytes that are not UTF-8, so
\* json.load's read raises UnicodeDecodeError, a ValueError that is neither
\* json.JSONDecodeError nor OSError and passes the except clause
load_meetings_raises(file) == file.st = "undecodable"

\* load_meetings(), when it returns: an absent file, a file that is not JSON
\* (empty, cut short) and a JSON value that is not a list read as []
load_meetings(file) == IF file.st = "ok" THEN file.data ELSE <<>>

\* get_booked_slots(): the slot of every entry whose slot is a string
RECURSIVE booked_loop(_, _, _)
booked_loop(entries, i, slots) ==
    IF i > Len(entries) THEN slots
    ELSE booked_loop(entries, i + 1,
            IF entries[i].slot.ty = "str" THEN Append(slots, entries[i].slot)
            ELSE slots)

get_booked_slots(file) == booked_loop(load_meetings(file), 1, <<>>)

\* get_booked_slots() raises what its load_meetings() raises
get_booked_slots_raises(file) == load_meetings_raises(file)

---------------------------------------------------------------------------
(* backend/scheduler.py: the slot calendar *)

\* a plausible slip: Friday (4) let through
AllowedWeekdays_WithFriday == {6, 0, 1, 2, 3, 4}

\* "Sunday (6) through Thursday (3)"
AllowedWeekdays == {6, 0, 1, 2, 3}

\* range(8, 16): start times 08:00 through 15:00
FirstHour == 8
EndHour == 16

\* the default of the parameter days
DefaultDays == 14

\* the inner loop of generate_available_slots, for hour in range(8, 16):
\* the slots it appends for one day
RECURSIVE hour_loop(_, _, _, _)
hour_loop(hour, day, booked_set, t_now) ==
    IF hour >= EndHour THEN <<>>
    ELSE LET slot_dt == combine(day, hour, 0)
             slot_str == strftime(slot_dt)
             rest == hour_loop(hour + 1, day, booked_set, t_now)
         IN  IF slot_dt <= t_now THEN rest
             ELSE IF slot_str \notin booked_set THEN <<slot_str>> \o rest
             ELSE rest

\* the outer loop of generate_available_slots, for offset in range(days):
\* the slots it appends from day offset on
RECURSIVE day_loop(_, _, _, _)
day_loop(offset, days, booked_set, t_now) ==
    IF offset >= days THEN <<>>
    ELSE LET day == t_now + offset * 1440
             rest == day_loop(offset + 1, days, booked_set, t_now)
         IN  IF weekday(day) \notin AllowedWeekdays THEN rest
             ELSE hour_loop(FirstHour, day, booked_set, t_now) \o rest

\* a plausible slip: the booked list is dropped
generate_available_slots_IgnoringBooked(booked, days, t_now) ==
    day_loop(0, days, {}, t_now)

\* a plausible slip: range(days + 1), a window one day too long
generate_available_slots_OneDayMore(booked, days, t_now) ==
    day_loop(0, days + 1, Range(booked), t_now)

generate_available_slots(booked, days, t_now) ==
    day_loop(0, days, Range(booked), t_now)

\* a plausible slip: the checks on the slot itself, without the look-up in
\* the freshly generated list
is_slot_available_NoLookup(slot_str, days, file, t_now) ==
    /\ strptime_ok(slot_str)
    /\ strptime(slot_str) > t_now
    /\ weekday(strptime(slot_str)) \in AllowedWeekdays
    /\ FirstHour <= HourOf(strptime(slot_str))
    /\ HourOf(strptime(slot_str)) <= EndHour - 1

\* is_slot_available(slot_str, days), called with a string, reading the
\* meetings log and the clock
is_slot_available(slot_str, days, file, t_now) ==
    IF ~strptime_ok(slot_str) THEN FALSE
    ELSE LET parsed == strptime(slot_str)
         IN  IF parsed <= t_now THEN FALSE
             ELSE IF weekday(parsed) \notin AllowedWeekdays THEN FALSE
             ELSE IF ~(FirstHour <= HourOf(parsed) /\ HourOf(parsed) <= EndHour - 1)
                  THEN FALSE
             ELSE slot_str \in
                    Range(generate_available_slots(get_booked_slots(file), days, t_now))

\* is_slot_available(slot_str, days) raises: the slot passed the checks on
\* the slot itself and the look-up's get_booked_slots() raises
is_slot_available_raises(slot_str, days, file, t_now) ==
    /\ strptime_ok(slot_str)
    /\ strptime(slot_str) > t_now
    /\ weekday(strptime(slot_str)) \in AllowedWeekdays
    /\ FirstHour <= HourOf(strptime(slot_str))
    /\ HourOf(strptime(slot_str)) <= EndHour - 1
    /\ get_booked_slots_raises(file)

---------------------------------------------------------------------------
(* Values the model draws its inputs from *)

\* the clock starts at one of these times of one of the days 0..MaxStartDay
ClockTimes == {7 * 60 + 30, 8 * 60, 15 * 60, 23 * 60 + 59}
NowValues == {d * 1440 + m : d \in 0..MaxStartDay, m \in ClockTimes}

Text(fmt, t) == [ty |-> "str", fmt |-> fmt, t |-> t]
BadText == [ty |-> "str", fmt |-> "bad", t |-> 0]      \* "soon"
NotAString == [ty |-> "other", fmt |-> "bad", t |-> 0] \* a JSON number or list
NoSlot == [ty |-> "none", fmt |-> "bad", t |-> 0]      \* None

\* slot texts asked about: before, at the edges of and after the business
\* hours, on and off the hour, on every weekday, inside and beyond the window
SlotTimes ==
    {d * 1440 + h * 60 + m : d \in 0..MaxSlotDay, h \in {7, 8, 15, 16}, m \in {0, 30}}
SlotTexts == {Text(f, t) : f \in {"canon", "loose"}, t \in SlotTimes} \cup {BadText}

\* a meetings-log entry
Entry(slot, call_sid, logged_at) ==
    [slot |-> slot, call_sid |-> call_sid, logged_at |-> logged_at]

NoTime == 0 - 1

SlotA == Text("canon", 7 * 1440 + 8 * 60)      \* Monday of the second week, 08:00
SlotB == Text("canon", 9 * 1440 + 15 * 60)     \* Wednesday of the second week, 15:00
SlotC == Text("loose", 8 * 1440 + 8 * 60)      \* Tuesday, written "8:00"

\* contents of the meetings log that the pure-function checks start from
LogInputs ==
    { [st |-> "absent", data |-> <<>>],
      [st |-> "corrupt", data |-> <<>>],
      [st |-> "ok", data |-> <<>>],
      [st |-> "ok", data |-> <<Entry(SlotA, "CA1", NoTime)>>],
      [st |-> "ok", data |-> <<Entry(SlotB, "CA1", NoTime), Entry(NotAString, "CA2", NoTime),
                               Entry(SlotC, "CA2", NoTime), Entry(SlotA, "CA1", NoTime)>>] }

\* booked lists and window lengths handed to generate_available_slots
BookedInputs ==
    { <<>>, <<SlotA>>, <<SlotB, SlotA, SlotB>>, <<SlotC, BadText>>,
      <<Text("canon", 3 * 1440 + 15 * 60), Text("canon", 6 * 1440 + 8 * 60)>> }
DaysInputs == {0, 1, 2, 7, DefaultDays}

NoCall ==
    [op |-> "none", booked |-> <<>>, days |-> 0, slot |-> BadText, t_now |-> 0,
     file |-> [st |-> "absent", data |-> <<>>], out |-> <<>>, ok |-> FALSE,
     raised |-> FALSE, adj |-> NoSlot,
     \* for the calls on a session: how many there were, the session before
     \* the call, the call's batch or step, its result; every proposal made
     \* so far, whether the calls so far were rounds of one or more
     \* ensure_proposed_slots and then advance_slot_options(session), and
     \* whether the round has had its ensure_proposed_slots
     \* for the name of a booking: the history and the payload's name
     \* handed in, the entry's name and pending_name_extraction after
     hist |-> <<>>, name_in |-> NoSlot, name_out |-> NoSlot, pending |-> FALSE,
     n |-> 0, before |-> [proposed_slots |-> <<>>, slot_index |-> 0],
     arg |-> 0, res |-> <<>>, offered |-> <<>>, rounds |-> TRUE, ensured |-> FALSE]

NoSessions == [c \in {} |-> 0]
NoSession ==
    [history |-> <<>>, available_slots |-> <<>>, scheduled_slot |-> NoSlot,
     proposed_slots |-> <<>>, slot_index |-> 0, meeting_logged |-> FALSE]
NoProcs == [p \in {} |-> 0]

---------------------------------------------------------------------------
(* SpecSlots: the scheduler's functions applied to drawn inputs *)

InitSlots ==
    /\ now \in NowValues
    /\ meetings_log \in LogInputs
    /\ CALL_SESSIONS = NoSessions
    /\ proc = NoProcs
    /\ fn = NoCall

\* a call generate_available_slots(booked, days)
GenerateCall ==
    \E booked \in BookedInputs, days \in DaysInputs :
        /\ fn.op = "none"
        /\ fn' = [NoCall EXCEPT !.op = "generate", !.booked = booked, !.days = days,
                                !.t_now = now, !.file = meetings_log,
                                !.out = generate_available_slots(booked, days, now)]
        /\ UNCHANGED <<now, meetings_log, CALL_SESSIONS, proc>>

\* a call is_slot_available(slot_str)
IsSlotAvailableCall ==
    \E slot_str \in SlotTexts :
        /\ fn.op = "none"
        /\ fn' = [NoCall EXCEPT !.op = "is_slot_available", !.slot = slot_str,
                                !.days = DefaultDays, !.t_now = now, !.file = meetings_log,
                                !.ok = is_slot_available(slot_str, DefaultDays, meetings_log, now)]
        /\ UNCHANGED <<now, meetings_log, CALL_SESSIONS, proc>>

NextSlots == GenerateCall \/ IsSlotAvailableCall

SpecSlots == InitSlots /\ [][NextSlots]_vars

---------------------------------------------------------------------------
(* SpecRead: the readers of the meetings log applied to a file in every    *)
(* condition: absent, not JSON (empty or cut short), JSON but not a list,  *)
(* bytes that are not UTF-8, and a list of entries.                        *)
(***************************************************************************)

ReadInputs ==
    LogInputs \cup { [st |-> "not_list", data |-> <<>>],
                     [st |-> "undecodable", data |-> <<>>] }

\* slots asked about: free on the Monday of the second week, booked in the
\* larger logs, outside the hours, not a date
ReadSlots == {SlotA, Text("canon", 7 * 1440 + 9 * 60), Text("canon", 7 * 1440 + 16 * 60), BadText}

InitRead ==
    /\ now \in NowValues
    /\ meetings_log \in ReadInputs
    /\ CALL_SESSIONS = NoSessions
    /\ proc = NoProcs
    /\ fn = NoCall

\* a call load_meetings()
LoadMeetingsCall ==
    /\ fn.op = "none"
    /\ fn' = [NoCall EXCEPT !.op = "load_meetings", !.t_now = now, !.file = meetings_log,
                            !.raised = load_meetings_raises(meetings_log),
                            !.out = IF load_meetings_raises(meetings_log) THEN <<>>
                                    ELSE load_meetings(meetings_log)]
    /\ UNCHANGED <<now, meetings_log, CALL_SESSIONS, proc>>

\* a call get_booked_slots()
GetBookedSlotsCall ==
    /\ fn.op = "none"
    /\ fn' = [NoCall EXCEPT !.op = "get_booked_slots", !.t_now = now, !.file = meetings_log,
                            !.raised = get_booked_slots_raises(meetings_log),
                            !.out = IF get_booked_slots_raises(meetings_log) THEN <<>>
                                    ELSE get_booked_slots(meetings_log)]
    /\ UNCHANGED <<now, meetings_log, CALL_SESSIONS, proc>>

\* a call is_slot_available(slot_str) that reads the file
IsSlotAvailableRead ==
    \E slot_str \in ReadSlots :
        /\ fn.op = "none"
        /\ fn' = [NoCall EXCEPT
                    !.op = "is_slot_available", !.slot = slot_str,
                    !.days = DefaultDays, !.t_now = now, !.file = meetings_log,
                    !.raised = is_slot_available_raises(slot_str, DefaultDays, meetings_log, now),
                    !.ok = /\ ~is_slot_available_raises(slot_str, DefaultDays, meetings_log, now)
                           /\ is_slot_available(slot_str, DefaultDays, meetings_log, now)]
        /\ UNCHANGED <<now, meetings_log, CALL_SESSIONS, proc>>

NextRead == LoadMeetingsCall \/ GetBookedSlotsCall \/ IsSlotAvailableRead

SpecRead == InitRead /\ [][NextRead]_vars

---------------------------------------------------------------------------
(* backend/scheduler.py: book_slot, step by step.                          *)
(* A thread runs book_slot between other threads' steps: the server        *)
(* handles each request on a thread of its own and nothing in the code     *)
(* locks the meetings log, so every access to the file is a step.          *)
(*   bs_check : is_slot_available(slot), which reads the file              *)
(*   bs_load  : append_meeting's load_meetings(), then entries.append      *)
(*   wm_open  : write_meetings' mkdir and open("w"), which empties the file*)
(*   wm_dump  : write_meetings' json.dump and close                        *)
(* The fields seen, avail0, overlap and io_failed record the run for the   *)
(* properties; the code has no such state.                                 *)
(***************************************************************************)

\* two request threads
Threads == {1, 2}

InFlight(rec) == rec.pc \notin {"idle", "returned"}

\* an empty (just truncated) or partly written file: json.load fails on it
Unreadable == [st |-> "corrupt", data |-> <<>>]

\* book_slot(entry) up to its first access to the file: a slot that is not
\* a string returns False at once
book_slot_enter(rec, entry, ret_to) ==
    IF entry.slot.ty # "str"
    THEN [rec EXCEPT !.pc = ret_to, !.entry = entry, !.ret = FALSE]
    ELSE [rec EXCEPT !.pc = "bs_check", !.entry = entry, !.ret_to = ret_to]

\* book_slot returns: its locals die, the caller gets the result
book_slot_return(rec, result, failed) ==
    [rec EXCEPT !.pc = rec.ret_to, !.ret = result, !.io_failed = failed,
                !.seen = <<>>, !.entries = <<>>,
                !.to_append = [rec.entry EXCEPT !.logged_at = NoTime]]

\* write_meetings returns, to append_meeting and so to book_slot's
\* "return True", or to update_meeting
write_meetings_return(rec, failed) ==
    IF rec.wm_to = "book_slot"
    THEN book_slot_return(rec, TRUE, failed)
    ELSE [rec EXCEPT !.pc = rec.wm_to, !.entries = <<>>, !.seen = <<>>,
                     !.io_failed = rec.io_failed \/ failed]

\* if not is_slot_available(slot): return False; else stamp the copy
BookSlotCheck(p) ==
    /\ proc[p].pc = "bs_check"
    /\ LET avail == is_slot_available(proc[p].entry.slot, DefaultDays, meetings_log, now)
       IN  proc' = [proc EXCEPT ![p] =
                IF ~avail
                THEN book_slot_return(proc[p], FALSE, FALSE)
                ELSE [@ EXCEPT !.pc = "bs_load",
                               !.seen = load_meetings(meetings_log),
                               !.to_append = [proc[p].entry EXCEPT !.logged_at = now]]]
    /\ UNCHANGED <<now, meetings_log, CALL_SESSIONS, fn>>

\* append_meeting: entries = load_meetings(); entries.append(entry)
AppendLoad(p) ==
    /\ proc[p].pc = "bs_load"
    /\ proc' = [proc EXCEPT ![p] =
            [@ EXCEPT !.pc = "wm_open", !.wm_to = "book_slot",
                      !.entries = Append(load_meetings(meetings_log), proc[p].to_append)]]
    /\ UNCHANGED <<now, meetings_log, CALL_SESSIONS, fn>>

\* write_meetings: mkdir and open("w") either raise OSError, which is logged
\* and swallowed with the file as it was, or leave the file empty
WriteOpen(p) ==
    /\ proc[p].pc = "wm_open"
    /\ \E opened \in BOOLEAN :
          IF opened
          THEN /\ meetings_log' = Unreadable
               /\ proc' = [proc EXCEPT ![p] = [@ EXCEPT !.pc = "wm_dump"]]
          ELSE /\ meetings_log' = meetings_log
               /\ proc' = [proc EXCEPT ![p] = write_meetings_return(proc[p], TRUE)]
    /\ UNCHANGED <<now, CALL_SESSIONS, fn>>

\* write_meetings: json.dump writes the list, or raises OSError part-way,
\* which is logged and swallowed
WriteDump(p) ==
    /\ proc[p].pc = "wm_dump"
    /\ \E written \in BOOLEAN :
          IF written
          THEN /\ meetings_log' = [st |-> "ok", data |-> proc[p].entries]
               /\ proc' = [proc EXCEPT ![p] = write_meetings_return(proc[p], FALSE)]
          ELSE /\ meetings_log' = Unreadable
               /\ proc' = [proc EXCEPT ![p] = write_meetings_return(proc[p], TRUE)]
    /\ UNCHANGED <<now, CALL_SESSIONS, fn>>

---------------------------------------------------------------------------
(* SpecBook: threads calling book_slot, the clock running *)

\* the clock of SpecBook: a Monday morning, then the next morning
BookClock == <<7 * 1440 + 7 * 60 + 30, 8 * 1440 + 7 * 60 + 30>>

\* the slots asked for
SlotToday == Text("canon", 7 * 1440 + 8 * 60)          \* free today, past tomorrow
SlotTomorrow == Text("canon", 8 * 1440 + 15 * 60)      \* free
BookSlots ==
    { SlotToday, SlotTomorrow,
      Text("canon", 6 * 1440 + 8 * 60),     \* yesterday
      Text("canon", 11 * 1440 + 8 * 60),    \* a Friday
      Text("canon", 8 * 1440 + 16 * 60),    \* 16:00
      Text("canon", 21 * 1440 + 8 * 60),    \* beyond the window until tomorrow
      Text("loose", 8 * 1440 + 15 * 60),    \* tomorrow 15:00 written loosely
      BadText, NotAString }

CallSidOf(p) == IF p = 1 THEN "CA1" ELSE "CA2"

IdleThread ==
    [pc |-> "idle", ret_to |-> "returned", ret |-> FALSE,
     entry |-> Entry(BadText, "", NoTime), to_append |-> Entry(BadText, "", NoTime),
     entries |-> <<>>, seen |-> <<>>, avail0 |-> FALSE, overlap |-> {},
     io_failed |-> FALSE, calls |-> 0, wm_to |-> "book_slot",
     \* a webhook request: its call, its route, the model's reply, the reply
     \* rewritten so far, the piece reached, and the response
     call_sid |-> "", route |-> "none", phase |-> "none", reply |-> <<>>, out |-> <<>>,
     i |-> 0, spoken |-> <<>>, should_end |-> FALSE, sched_at_guard |-> NoSlot,
     \* what the run of a request found, recorded for the properties: the
     \* log, the session's slot and whether the tag's slot was in the log
     \* when a BOOKED tag or the fallback set out to book; the length of the
     \* history at the start of the request and the history as the trim
     \* found it; the reply as continue_conversation_twiml got it
     log0 |-> <<>>, sched0 |-> NoSlot, booked0 |-> FALSE,
     hist_start |-> 0, hist_trim |-> <<>>, final |-> <<>>,
     \* the log, the clock and the session's slot and available slots at the
     \* start of the request; the calls this thread has ended whose id no
     \* request has used since, and whether this request's call was one
     log_start |-> <<>>, sched_start |-> NoSlot, avail_start |-> <<>>, t_start |-> 0,
     ended |-> {}, after_end |-> FALSE,
     \* the call's entry was gone from CALL_SESSIONS, popped by another
     \* request, when the model's reply came
     ended_at_reply |-> FALSE,
     \* the request's local `history`: the list that was session["history"]
     \* when the request began.  It is the session's list until another
     \* request's trim puts a new list into the session; from then on
     \* (stale) only this request holds it
     stale |-> FALSE, history |-> <<>>,
     \* update_meeting's parameter updates ({} as the turn handler passes
     \* it) and its result
     updates |-> [given |-> TRUE, with |-> <<>>], changed |-> FALSE,
     \* the request's session dict once it is no longer the call's entry
     detached |-> FALSE, own |-> NoSession]

InitBook ==
    /\ now = BookClock[1]
    /\ meetings_log \in {[st |-> "absent", data |-> <<>>],
                         [st |-> "ok", data |-> <<Entry(SlotTomorrow, "CA0", NoTime)>>]}
    /\ CALL_SESSIONS = NoSessions
    /\ proc = [p \in Threads |-> IdleThread]
    /\ fn = NoCall

\* a handler calls book_slot(entry)
BookSlotCall(p) ==
    /\ proc[p].pc = "idle"
    /\ proc[p].calls < MaxCalls
    /\ \E slot \in BookSlots :
          LET others == {q \in Threads \ {p} : InFlight(proc[q])}
              mine == [IdleThread EXCEPT
                          !.calls = proc[p].calls + 1,
                          !.overlap = others,
                          !.avail0 = /\ slot.ty = "str"
                                     /\ is_slot_available(slot, DefaultDays, meetings_log, now)]
          IN  proc' = [q \in Threads |->
                          IF q = p
                          THEN book_slot_enter(mine, Entry(slot, CallSidOf(p), NoTime), "returned")
                          ELSE IF q \in others
                          THEN [proc[q] EXCEPT !.overlap = @ \cup {p}]
                          ELSE proc[q]]
    /\ UNCHANGED <<now, meetings_log, CALL_SESSIONS, fn>>

\* the caller takes the result; the thread is free for the next request
BookSlotDone(p) ==
    /\ proc[p].pc = "returned"
    /\ proc' = [proc EXCEPT ![p] = [IdleThread EXCEPT !.calls = proc[p].calls]]
    /\ UNCHANGED <<now, meetings_log, CALL_SESSIONS, fn>>

\* time passes
Tick ==
    /\ \E i \in 1..(Len(BookClock) - 1) : now = BookClock[i] /\ now' = BookClock[i + 1]
    /\ UNCHANGED <<meetings_log, CALL_SESSIONS, proc, fn>>

NextBook ==
    \/ \E p \in Threads : BookSlotCall(p)
    \/ \E p \in Threads : BookSlotCheck(p)
    \/ \E p \in Threads : AppendLoad(p)
    \/ \E p \in Threads : WriteOpen(p)
    \/ \E p \in Threads : WriteDump(p)
    \/ \E p \in Threads : BookSlotDone(p)
    \/ Tick

SpecBook == InitBook /\ [][NextBook]_vars

---------------------------------------------------------------------------
(* voice_server.py: replies and spoken text.                               *)
(* A text is a sequence of pieces written one after the other with nothing *)
(* between them; a piece [k, s, alts] is                                   *)
(*   "text"            words without brackets, digits or weekday names     *)
(*   "END"             [[END_CALL]]                                        *)
(*   "END_HEAD"        [[END_      "END_TAIL"   CALL]]                     *)
(*   "BOOKED"          [[BOOKED {"slot": s}]], s any JSON value            *)
(*   "BOOKED_BADJSON"  [[BOOKED {"slot": s,}]] or [[BOOKED {oops}]]:       *)
(*                     matched, json.loads fails; s is the date and time   *)
(*                     written in the payload, NoSlot when there is none   *)
(*   "BOOKED_NOSLOT"   [[BOOKED {"name": "Dana"}]]                         *)
(*   "BOOKED_BARE"     [[BOOKED]]: the pattern wants a {...} payload       *)
(*   "CALLBACK"        [[CALLBACK_NEEDED {"when": "tomorrow"}]]            *)
(*   "SEND_INFO"       [[SEND_INFO {"notes": "deck"}]]                     *)
(*   "WHEN"            a date and time in the words: "2025-11-18 12:00"    *)
(*   "DAYTIME"         a weekday name and a time in the words, "Tuesday at *)
(*                     15:00": the weekday and the HH:MM of s              *)
(* and, in what the server says, the sentences it writes itself.  In a     *)
(* reply the loose form of a slot is the hour without its zero ("8:00").   *)
(***************************************************************************)

Tok(k) == [k |-> k, s |-> NoSlot, alts |-> <<>>]
TokS(k, slot) == [k |-> k, s |-> slot, alts |-> <<>>]

\* "[[END_CALL]]" in text: the marker whole, or put together by two pieces
HasEndMarker(text) ==
    \E i \in 1..Len(text) :
        \/ text[i].k = "END"
        \/ text[i].k = "END_HEAD" /\ i < Len(text) /\ text[i + 1].k = "END_TAIL"

\* text.replace("[[END_CALL]]", ""): one pass from the left over the
\* occurrences that do not overlap
RECURSIVE replace_end(_, _)
replace_end(text, i) ==
    IF i > Len(text) THEN <<>>
    ELSE IF text[i].k = "END" THEN replace_end(text, i + 1)
    ELSE IF text[i].k = "END_HEAD" /\ i < Len(text) /\ text[i + 1].k = "END_TAIL"
         THEN replace_end(text, i + 2)
    ELSE <<text[i]>> \o replace_end(text, i + 1)

\* any(tag in assistant_reply for tag in ("[[BOOKED", "[[CALLBACK_NEEDED", "[[SEND_INFO"))
HasWrapUpTag(text) ==
    \E i \in 1..Len(text) :
        text[i].k \in {"BOOKED", "BOOKED_BADJSON", "BOOKED_NOSLOT", "BOOKED_BARE",
                       "CALLBACK", "SEND_INFO"}

\* booked_pattern matches the piece
MatchesBookedPattern(tok) == tok.k \in {"BOOKED", "BOOKED_BADJSON", "BOOKED_NOSLOT"}

\* the first match of booked_pattern at or after piece i, 0 when there is none
RECURSIVE next_booked(_, _)
next_booked(text, i) ==
    IF i > Len(text) THEN 0
    ELSE IF MatchesBookedPattern(text[i]) THEN i
    ELSE next_booked(text, i + 1)

\* the fallback's iso_match on the raw reply: the first date and time in it,
\* in a tag's payload or in the words, the hour zero-padded; NoSlot when none
RECURSIVE iso_guess(_, _)
iso_guess(text, i) ==
    IF i > Len(text) THEN NoSlot
    ELSE IF text[i].k \in {"BOOKED", "BOOKED_BADJSON", "WHEN"} /\ strptime_ok(text[i].s)
         THEN strftime(strptime(text[i].s))
    ELSE iso_guess(text, i + 1)

\* the weekday names the fallback's day_match knows
target_wd_map == {0, 1, 2, 3, 6}

\* the first weekday name with a time in the words, 0 when there is none
RECURSIVE day_match(_, _)
day_match(text, i) ==
    IF i > Len(text) THEN 0
    ELSE IF text[i].k = "DAYTIME" /\ weekday(text[i].s.t) \in target_wd_map THEN i
    ELSE day_match(text, i + 1)

\* the days the fallback looks ahead for the weekday: range(0, 14)
FallbackDays == 14

\* for delta in range(0, 14): the first day of that weekday whose time is
\* after now
RECURSIVE weekday_loop(_, _, _, _)
weekday_loop(delta, target_wd, hour_min, t_now) ==
    IF delta >= FallbackDays THEN NoSlot
    ELSE LET candidate == t_now + delta * 1440
             candidate_dt == combine(candidate, HourOf(hour_min), MinuteOf(hour_min))
         IN  IF weekday(candidate) # target_wd
             THEN weekday_loop(delta + 1, target_wd, hour_min, t_now)
             ELSE IF candidate_dt <= t_now
             THEN weekday_loop(delta + 1, target_wd, hour_min, t_now)
             ELSE strftime(candidate_dt)

\* slot_guess of the fallback: the date and time written in the reply, else
\* the next day of the weekday named in it at the time named with it
slot_guess(text, t_now) ==
    IF iso_guess(text, 1) # NoSlot THEN iso_guess(text, 1)
    ELSE IF day_match(text, 1) = 0 THEN NoSlot
    ELSE LET named == text[day_match(text, 1)].s.t
         IN  weekday_loop(0, weekday(named), named, t_now)

\* the loop of _adjust_slot_to_future_within_window: for delta in range(1, days + 1)
RECURSIVE adjust_loop(_, _, _, _, _)
adjust_loop(delta, days, original, file, t_now) ==
    IF delta > days THEN NoSlot
    ELSE LET candidate == t_now + delta * 1440
             cand_str == strftime(combine(candidate, HourOf(original), MinuteOf(original)))
         IN  IF weekday(candidate) # weekday(original)
             THEN adjust_loop(delta + 1, days, original, file, t_now)
             ELSE IF is_slot_available(cand_str, DefaultDays, file, t_now) THEN cand_str
             ELSE adjust_loop(delta + 1, days, original, file, t_now)

\* _adjust_slot_to_future_within_window(slot_str)
adjust_slot_to_future_within_window(slot_str, days, file, t_now) ==
    IF ~strptime_ok(slot_str) THEN NoSlot
    ELSE IF strptime(slot_str) > t_now /\ is_slot_available(slot_str, DefaultDays, file, t_now)
         THEN slot_str
    ELSE adjust_loop(1, days, strptime(slot_str), file, t_now)

\* the loop of _adjust_slot_to_future_within_window raises: an
\* is_slot_available(cand_str) it comes to raises
RECURSIVE adjust_loop_raises(_, _, _, _, _)
adjust_loop_raises(delta, days, original, file, t_now) ==
    IF delta > days THEN FALSE
    ELSE LET candidate == t_now + delta * 1440
             cand_str == strftime(combine(candidate, HourOf(original), MinuteOf(original)))
         IN  IF weekday(candidate) # weekday(original)
             THEN adjust_loop_raises(delta + 1, days, original, file, t_now)
             ELSE IF is_slot_available_raises(cand_str, DefaultDays, file, t_now) THEN TRUE
             ELSE IF is_slot_available(cand_str, DefaultDays, file, t_now) THEN FALSE
             ELSE adjust_loop_raises(delta + 1, days, original, file, t_now)

\* _adjust_slot_to_future_within_window(slot_str) raises what its
\* is_slot_available calls raise; only ValueError of strptime is caught
adjust_slot_to_future_within_window_raises(slot_str, days, file, t_now) ==
    IF ~strptime_ok(slot_str) THEN FALSE
    ELSE IF strptime(slot_str) > t_now
            /\ is_slot_available_raises(slot_str, DefaultDays, file, t_now)
         THEN TRUE
    ELSE IF strptime(slot_str) > t_now /\ is_slot_available(slot_str, DefaultDays, file, t_now)
         THEN FALSE
    ELSE adjust_loop_raises(1, days, strptime(slot_str), file, t_now)

SubSeqFrom(seq, i) == SubSeq(seq, i, Len(seq))

\* the history kept once it is longer than this
HistoryLimit == 24

\* a plausible slip: the last 24 entries kept, the first entry lost
trim_history_Last24(history) ==
    IF Len(history) > HistoryLimit
    THEN SubSeq(history, Len(history) - (HistoryLimit - 1), Len(history))
    ELSE history

\* if len(history) > 24: session["history"] = [history[0]] + history[-23:]
trim_history(history) ==
    IF Len(history) > HistoryLimit
    THEN <<history[1]>> \o SubSeq(history, Len(history) - (HistoryLimit - 2), Len(history))
    ELSE history

---------------------------------------------------------------------------
(* voice_server.py: sessions *)

Turn(role, content) == [role |-> role, content |-> content]

\* a plausible slip: the new session's slots computed without the ledger
new_session_IgnoringLedger(file, t_now) ==
    [history |-> <<>>,
     available_slots |-> generate_available_slots(<<>>, DefaultDays, t_now),
     scheduled_slot |-> NoSlot,
     proposed_slots |-> <<>>, slot_index |-> 0, meeting_logged |-> FALSE]

\* get_session's new session
new_session(file, t_now) ==
    [history |-> <<>>,
     available_slots |-> generate_available_slots(get_booked_slots(file), DefaultDays, t_now),
     scheduled_slot |-> NoSlot,
     proposed_slots |-> <<>>, slot_index |-> 0, meeting_logged |-> FALSE]

\* a plausible slip: the map holding the session asked for and no other
get_session_Alone(call_sid, file, t_now) ==
    [c \in {call_sid} |->
        IF c \in DOMAIN CALL_SESSIONS THEN CALL_SESSIONS[c] ELSE new_session(file, t_now)]

\* CALL_SESSIONS after get_session(call_sid)
get_session(call_sid, file, t_now) ==
    IF call_sid \in DOMAIN CALL_SESSIONS THEN CALL_SESSIONS
    ELSE [c \in DOMAIN CALL_SESSIONS \cup {call_sid} |->
            IF c = call_sid THEN new_session(file, t_now) ELSE CALL_SESSIONS[c]]

\* a plausible slip: the session left in the map when the call ends
cleanup_conversation_Keeps(sessions, call_sid) == sessions

\* cleanup_conversation: CALL_SESSIONS.pop(call_sid, None)
cleanup_conversation(sessions, call_sid) ==
    [c \in DOMAIN sessions \ {call_sid} |-> sessions[c]]

\* ensure_proposed_slots(session, batch): the session it leaves and the
\* list it returns
ensure_proposed_slots(session, batch) ==
    LET slots == session.available_slots
        index == session.slot_index
        last == IF index + batch < Len(slots) THEN index + batch ELSE Len(slots)
        new_proposed == SubSeq(slots, index + 1, last)
    IN  IF session.proposed_slots # <<>>
        THEN [session |-> session, out |-> session.proposed_slots]
        ELSE IF index >= Len(slots)
        THEN [session |-> session, out |-> <<>>]
        ELSE [session |-> [session EXCEPT !.proposed_slots = new_proposed,
                                          !.slot_index = index],
              out |-> new_proposed]

\* the step parameter left out
NoStep == 0

\* a plausible slip: one slot further whatever was proposed
advance_slot_options_ByOne(session, step) ==
    [session EXCEPT !.slot_index = @ + 1, !.proposed_slots = <<>>]

\* advance_slot_options(session, step):
\* step = step or max(1, len(session.get("proposed_slots", [])) or 1)
advance_slot_options(session, step) ==
    LET by == IF step # NoStep THEN step
              ELSE IF Len(session.proposed_slots) > 0 THEN Len(session.proposed_slots)
              ELSE 1
    IN  [session EXCEPT !.slot_index = @ + by, !.proposed_slots = <<>>]

\* register_scheduled_slot(session, slot)
register_scheduled_slot(session, slot) ==
    [session EXCEPT !.scheduled_slot = slot,
                    !.available_slots = SelectSeq(session.available_slots, LAMBDA x : x # slot),
                    !.proposed_slots = <<>>]

---------------------------------------------------------------------------
(* voice_server.py: the webhooks, step by step.  A request is served       *)
(* between other requests' steps wherever it reads or writes the meetings  *)
(* log or waits for the model:                                             *)
(*   generate : generate_reply(session)                                    *)
(*   sub      : booked_pattern.sub, up to the next matched tag's book_slot *)
(*   booked   : book_slot has returned to _handle_booked or the fallback   *)
(*   um_load  : update_meeting's load_meetings()                           *)
(*   updated  : update_meeting has returned                                *)
(*   fallback : the natural-language fallback                              *)
(*   finish   : the history trim, the end-of-call guard, the TwiML         *)
(*   responded: the response is on its way                                 *)
(* The field sched_at_guard records the session's scheduled_slot as the    *)
(* guard saw it; the code has no such state.                               *)
(***************************************************************************)

MaxTurns == 2         \* requests a handler thread serves in one run

\* the call the requests belong to; the log holds another call's booking
CallSids == {"CA1"}

\* one handler thread
TurnThreads == {1}

SlotYesterday == Text("canon", 6 * 1440 + 8 * 60)      \* a Sunday, 08:00
SlotLoose == Text("loose", 9 * 1440 + 8 * 60)          \* Wednesday, written "8:00"
SlotWednesday == Text("canon", 9 * 1440 + 15 * 60)     \* Wednesday, 15:00

\* replies the model gives
ReplyInputs ==
    { <<Tok("text")>>,
      <<Tok("END")>>,
      <<Tok("text"), Tok("END")>>,
      <<Tok("END_HEAD"), Tok("END"), Tok("END_TAIL")>>,
      <<Tok("END_HEAD"), Tok("BOOKED_BADJSON"), Tok("END_TAIL")>>,
      <<Tok("text"), Tok("CALLBACK")>>,
      <<Tok("CALLBACK"), Tok("END")>>,
      <<Tok("text"), Tok("SEND_INFO"), Tok("END")>>,
      <<Tok("text"), TokS("BOOKED", SlotToday)>>,
      <<TokS("BOOKED", SlotTomorrow), Tok("text"), Tok("END")>>,
      <<TokS("BOOKED", SlotToday), TokS("BOOKED", SlotTomorrow)>>,
      <<TokS("BOOKED", SlotYesterday), Tok("END")>>,
      <<TokS("BOOKED", SlotToday), TokS("BOOKED", NotAString), Tok("END")>>,
      <<TokS("BOOKED", BadText)>>,
      <<TokS("BOOKED", SlotLoose), Tok("END")>>,
      <<Tok("BOOKED_BADJSON"), Tok("END")>>,
      <<Tok("text"), Tok("BOOKED_NOSLOT")>>,
      <<Tok("BOOKED_BARE"), Tok("END")>>,
      <<Tok("text"), TokS("WHEN", SlotToday), Tok("END")>>,
      <<TokS("WHEN", SlotLoose), TokS("BOOKED", SlotTomorrow)>>,
      <<Tok("text"), TokS("BOOKED_BADJSON", SlotToday)>>,
      <<Tok("BOOKED_BADJSON"), TokS("WHEN", SlotToday)>>,
      <<Tok("text"), TokS("DAYTIME", SlotWednesday)>> }

\* a plausible slip: the apology without the invitation to speak again
handle_transcription_error_NoRetry(error_message) ==
    <<Tok(error_message)>>

\* handle_transcription_error's prompt
handle_transcription_error(error_message) ==
    <<Tok(error_message), Tok("PLEASE_TRY_AGAIN")>>

\* the guard of process_recording on the rewritten reply
end_call_guard(assistant_reply, session) ==
    IF /\ HasEndMarker(assistant_reply)
       /\ session.scheduled_slot = NoSlot
       /\ ~HasWrapUpTag(assistant_reply)
    THEN replace_end(assistant_reply, 1)
    ELSE assistant_reply

\* a plausible slip: the reply gathered as it is, without the prompt that
\* stands in for an empty one
continue_conversation_twiml_NoStandIn(reply) ==
    LET should_end == HasEndMarker(reply)
        spoken_reply == replace_end(reply, 1)
    IN  [should_end |-> should_end,
         spoken |-> IF should_end THEN spoken_reply \o <<Tok("GOODBYE")>>
                    ELSE spoken_reply]

\* continue_conversation_twiml: what is said, and whether the call is hung up
continue_conversation_twiml(reply) ==
    LET should_end == HasEndMarker(reply)
        spoken_reply == replace_end(reply, 1)
    IN  [should_end |-> should_end,
         spoken |-> IF should_end THEN spoken_reply \o <<Tok("GOODBYE")>>
                    ELSE IF spoken_reply # <<>> THEN spoken_reply
                    ELSE <<Tok("STILL_HERE")>>]

\* the session a request works on: the dict that get_session returned.  It
\* is the call's entry of CALL_SESSIONS until a cleanup_conversation pops
\* that entry; from then on only the request holds it (the field own)
session_of(rec) ==
    IF rec.detached THEN rec.own ELSE CALL_SESSIONS[rec.call_sid]

\* CALL_SESSIONS, and the request's record, once that dict has become sess
sessions_with(rec, sess) ==
    IF rec.detached THEN CALL_SESSIONS
    ELSE [CALL_SESSIONS EXCEPT ![rec.call_sid] = sess]

rec_with(rec, sess) ==
    IF rec.detached THEN [rec EXCEPT !.own = sess] ELSE rec

\* the list the request's local `history` names
history_of(rec) ==
    IF rec.stale THEN rec.history ELSE session_of(rec).history

\* thread q is serving a turn of call c on the dict that is c's entry
HoldsEntry(q, c) ==
    /\ proc[q].route = "process_recording"
    /\ proc[q].pc \notin {"idle", "responded"}
    /\ proc[q].call_sid = c
    /\ ~proc[q].detached

\* the record of a thread that starts on a request of call c by way of
\* route, with sessions what get_session(c) has made of CALL_SESSIONS
request_start(rec, c, route, sessions) ==
    [IdleThread EXCEPT !.calls = rec.calls + 1, !.call_sid = c, !.route = route,
                       !.hist_start = Len(sessions[c].history),
                       !.log_start = load_meetings(meetings_log),
                       !.t_start = now,
                       !.sched_start = sessions[c].scheduled_slot,
                       !.avail_start = sessions[c].available_slots,
                       !.after_end = c \in rec.ended,
                       !.ended = rec.ended \ {c}]

\* POST /voice
HandleVoiceOf(p, sids) ==
    /\ proc[p].pc = "idle"
    /\ proc[p].calls < MaxTurns
    /\ \E c \in sids :
          LET sessions == get_session(c, meetings_log, now)
              history == sessions[c].history
              with_system ==
                  IF \E k \in 1..Len(history) : history[k].role = "system" THEN history
                  ELSE Append(history, Turn("system", <<Tok("text")>>))
          IN  /\ CALL_SESSIONS' =
                    [sessions EXCEPT ![c].history =
                        Append(with_system, Turn("assistant", <<Tok("text")>>))]
              /\ proc' = [proc EXCEPT ![p] =
                    [request_start(proc[p], c, "voice", sessions) EXCEPT
                        !.pc = "responded", !.spoken = <<Tok("text")>>]]
    /\ UNCHANGED <<now, meetings_log, fn>>

\* POST /voice for a call of CallSids
HandleVoice(p) == HandleVoiceOf(p, CallSids)

\* POST /process_recording, up to the call of the model
ProcessRecordingOf(p, sids) ==
    /\ proc[p].pc = "idle"
    /\ proc[p].calls < MaxTurns
    /\ \E c \in sids, heard \in {"said", "nothing", "error"} :
          LET sessions == get_session(c, meetings_log, now)
              mine == request_start(proc[p], c, "process_recording", sessions)
          IN  IF heard = "error"
              THEN /\ CALL_SESSIONS' = sessions
                   /\ proc' = [proc EXCEPT ![p] =
                         [mine EXCEPT !.pc = "responded",
                                      !.spoken = handle_transcription_error("COULD_NOT_UNDERSTAND")]]
              ELSE IF heard = "nothing"
              THEN /\ CALL_SESSIONS' = sessions
                   /\ proc' = [proc EXCEPT ![p] =
                         [mine EXCEPT !.pc = "responded",
                                      !.spoken = handle_transcription_error("DID_NOT_CATCH")]]
              ELSE /\ CALL_SESSIONS' =
                         [sessions EXCEPT ![c].history =
                             Append(@, Turn("user", <<Tok("text")>>))]
                   /\ proc' = [proc EXCEPT ![p] = [mine EXCEPT !.pc = "generate"]]
    /\ UNCHANGED <<now, meetings_log, fn>>

\* POST /process_recording for a call of CallSids
ProcessRecording(p) == ProcessRecordingOf(p, CallSids)

\* generate_reply(session) raises, or returns one of replies
GenerateReplyFrom(p, replies) ==
    /\ proc[p].pc = "generate"
    /\ \/ /\ proc' = [proc EXCEPT ![p] =
                [@ EXCEPT !.pc = "responded",
                          !.spoken = handle_transcription_error("GLITCH")]]
          /\ UNCHANGED CALL_SESSIONS
       \/ \E reply \in replies :
             LET rec == proc[p]
                 appended == Append(history_of(rec), Turn("assistant", reply))
                 sess == IF rec.stale THEN session_of(rec)
                         ELSE [session_of(rec) EXCEPT !.history = appended]
             IN  /\ CALL_SESSIONS' = sessions_with(rec, sess)
                 /\ proc' = [proc EXCEPT ![p] =
                       [rec_with(rec, sess) EXCEPT !.pc = "sub", !.reply = reply,
                                                   !.out = <<>>, !.i = 1,
                                                   !.history = IF rec.stale THEN appended ELSE @,
                                                   !.ended_at_reply = rec.detached]]
    /\ UNCHANGED <<now, meetings_log, fn>>

\* generate_reply(session) raises, or returns the model's reply
GenerateReply(p) == GenerateReplyFrom(p, ReplyInputs)

\* booked_pattern.sub(_handle_booked, assistant_reply), from piece i to the
\* next tag whose slot _handle_booked tries to book.  A slot that is not a
\* string makes is_slot_available raise TypeError, which ends the
\* post-processing with assistant_reply as the model gave it.
SubstituteBooked(p) ==
    /\ proc[p].pc = "sub"
    /\ LET rec == proc[p]
           j == next_booked(rec.reply, rec.i)
       IN  proc' = [proc EXCEPT ![p] =
             IF j = 0
             THEN [rec EXCEPT !.pc = "fallback",
                              !.out = rec.out \o SubSeqFrom(rec.reply, rec.i),
                              !.i = Len(rec.reply) + 1]
             ELSE LET tok == rec.reply[j]
                      copied == rec.out \o SubSeq(rec.reply, rec.i, j - 1)
                  IN  IF tok.k # "BOOKED"
                      THEN [rec EXCEPT !.out = copied, !.i = j + 1]
                      ELSE IF tok.s.ty # "str"
                      THEN [rec EXCEPT !.pc = "finish", !.out = rec.reply]
                      ELSE LET avail == is_slot_available(tok.s, DefaultDays, meetings_log, now)
                               adj == IF avail THEN NoSlot
                                      ELSE adjust_slot_to_future_within_window(
                                               tok.s, DefaultDays, meetings_log, now)
                               slot_to_book == IF adj # NoSlot THEN adj ELSE tok.s
                           IN  book_slot_enter(
                                   [rec EXCEPT !.out = copied, !.i = j, !.phase = "tag",
                                               !.avail0 = avail,
                                               !.booked0 = tok.s \in Range(
                                                   get_booked_slots(meetings_log)),
                                               !.log0 = load_meetings(meetings_log),
                                               !.sched0 = session_of(rec).scheduled_slot],
                                   Entry(slot_to_book, rec.call_sid, NoTime), "booked")]
    /\ UNCHANGED <<now, meetings_log, CALL_SESSIONS, fn>>

\* after ok = book_slot(entry), in _handle_booked and in the fallback.
\* CALL_SESSIONS[call_sid] raises KeyError when the call's entry is gone:
\* around register_scheduled_slot it is caught and logged; at the refresh of
\* available_slots it ends the post-processing (from _handle_booked, with
\* assistant_reply as the model gave it) or the fallback
AfterBookSlot(p) ==
    /\ proc[p].pc = "booked"
    /\ LET rec == proc[p]
           c == rec.call_sid
           slots_now == generate_available_slots(get_booked_slots(meetings_log),
                                                 DefaultDays, now)
           suggestions == SubSeq(slots_now, 1, IF Len(slots_now) < 2 THEN Len(slots_now) ELSE 2)
       IN  IF rec.ret
           THEN /\ CALL_SESSIONS' =
                      IF c \in DOMAIN CALL_SESSIONS
                      THEN [CALL_SESSIONS EXCEPT
                              ![c] = register_scheduled_slot(@, rec.entry.slot)]
                      ELSE CALL_SESSIONS
                /\ proc' = [proc EXCEPT ![p] = [rec EXCEPT !.pc = "um_load"]]
           ELSE IF c \notin DOMAIN CALL_SESSIONS
           THEN /\ CALL_SESSIONS' = CALL_SESSIONS
                /\ proc' = [proc EXCEPT ![p] =
                      IF rec.phase = "tag"
                      THEN [rec EXCEPT !.pc = "finish", !.out = rec.reply]
                      ELSE [rec EXCEPT !.pc = "finish"]]
           ELSE /\ CALL_SESSIONS' = [CALL_SESSIONS EXCEPT ![c].available_slots = slots_now]
                /\ proc' = [proc EXCEPT ![p] =
                      IF rec.phase = "tag"
                      THEN [rec EXCEPT !.pc = "sub", !.i = rec.i + 1,
                                       !.out = Append(rec.out,
                                           [k |-> "NO_LONGER_AVAILABLE", s |-> NoSlot,
                                            alts |-> suggestions])]
                      ELSE [rec EXCEPT !.pc = "finish",
                                       !.out = Append(rec.out, Tok("UNAVAILABLE_NOW"))]]
    /\ UNCHANGED <<now, meetings_log, fn>>

\* update_meeting's parameters: updates None, {} or a dict of fields, and
\* call_sid None
NoUpdates == [given |-> FALSE, with |-> <<>>]
EmptyUpdates == [given |-> TRUE, with |-> <<>>]
NoCallSid == ""

\* e.get("slot") == slot and (call_sid is None or e.get("call_sid") == call_sid)
update_matches(e, slot, call_sid) ==
    /\ e.slot = slot
    /\ (call_sid = NoCallSid \/ e.call_sid = call_sid)

\* e.update(updates)
merge_updates(e, updates) ==
    [k \in DOMAIN e |-> IF k \in DOMAIN updates.with THEN updates.with[k] ELSE e[k]]

\* update_meeting's loop: entries after entry i and the ones before it
\* have been looked at
RECURSIVE update_loop(_, _, _, _, _)
update_loop(entries, i, slot, call_sid, updates) ==
    IF i > Len(entries) THEN entries
    ELSE update_loop(
            IF update_matches(entries[i], slot, call_sid)
            THEN [entries EXCEPT ![i] = merge_updates(@, updates)]
            ELSE entries,
            i + 1, slot, call_sid, updates)

\* update_meeting(slot, call_sid, updates) with updates given: the load and
\* the loop; the entries are written back when one matched.  The field seen
\* keeps the entries as they were loaded.
UpdateMeetingLoad(p) ==
    /\ proc[p].pc = "um_load"
    /\ LET rec == proc[p]
           entries == load_meetings(meetings_log)
           changed == \E k \in 1..Len(entries) :
                          update_matches(entries[k], rec.entry.slot, rec.call_sid)
       IN  proc' = [proc EXCEPT ![p] =
             IF changed
             THEN [rec EXCEPT !.pc = "wm_open", !.wm_to = "updated", !.changed = TRUE,
                              !.seen = entries,
                              !.entries = update_loop(entries, 1, rec.entry.slot,
                                                      rec.call_sid, rec.updates)]
             ELSE [rec EXCEPT !.pc = "updated", !.changed = FALSE]]
    /\ UNCHANGED <<now, meetings_log, CALL_SESSIONS, fn>>

\* "I have recorded that meeting for {slot}.", in place of the tag or after
\* the reply
AfterUpdateMeeting(p) ==
    /\ proc[p].pc = "updated"
    /\ LET rec == proc[p]
           sentence == TokS("RECORDED", rec.entry.slot)
       IN  proc' = [proc EXCEPT ![p] =
             IF rec.phase = "tag"
             THEN [rec EXCEPT !.pc = "sub", !.i = rec.i + 1, !.changed = FALSE,
                              !.out = Append(rec.out, sentence)]
             ELSE [rec EXCEPT !.pc = "finish", !.changed = FALSE,
                              !.out = Append(rec.out, sentence)]]
    /\ UNCHANGED <<now, meetings_log, CALL_SESSIONS, fn>>

\* a plausible slip: the fallback run whatever the session holds
fallback_applies_Always(session) == TRUE

\* if not session.get("scheduled_slot")
fallback_applies(session) == session.scheduled_slot = NoSlot

\* the fallback: with no scheduled slot in the session, a date and time in
\* the reply as the model gave it is booked when it is available
Fallback(p) ==
    /\ proc[p].pc = "fallback"
    /\ LET rec == proc[p]
           guess == slot_guess(rec.reply, now)
       IN  proc' = [proc EXCEPT ![p] =
             IF ~fallback_applies(session_of(rec))
             THEN [rec EXCEPT !.pc = "finish"]
             ELSE IF guess # NoSlot /\ is_slot_available(guess, DefaultDays, meetings_log, now)
             THEN book_slot_enter(
                      [rec EXCEPT !.phase = "fallback", !.avail0 = TRUE, !.booked0 = FALSE,
                                  !.log0 = load_meetings(meetings_log),
                                  !.sched0 = session_of(rec).scheduled_slot],
                      Entry(guess, rec.call_sid, NoTime), "booked")
             ELSE [rec EXCEPT !.pc = "finish"]]
    /\ UNCHANGED <<now, meetings_log, CALL_SESSIONS, fn>>

\* the history trim, the guard and continue_conversation_twiml, which pops
\* the call's entry of CALL_SESSIONS when the call ends; another request
\* still working on that dict keeps it.  The trim reads the local `history`
\* and, when it is longer than 24, puts a new list into the session: another
\* request that took session["history"] before keeps the old list
Finish(p) ==
    /\ proc[p].pc = "finish"
    /\ LET rec == proc[p]
           c == rec.call_sid
           session == session_of(rec)
           history == history_of(rec)
           trims == Len(history) > HistoryLimit
           trimmed == IF trims THEN [session EXCEPT !.history = trim_history(history)]
                      ELSE session
           sessions == sessions_with(rec, trimmed)
           final == end_call_guard(rec.out, session)
           twiml == continue_conversation_twiml(final)
           mine == [rec_with(rec, trimmed) EXCEPT
                       !.pc = "responded", !.spoken = twiml.spoken,
                       !.should_end = twiml.should_end, !.final = final,
                       !.hist_trim = history,
                       !.stale = FALSE, !.history = <<>>,
                       !.ended = IF twiml.should_end THEN rec.ended \cup {c} ELSE rec.ended,
                       !.sched_at_guard = session.scheduled_slot]
       IN  /\ CALL_SESSIONS' = IF twiml.should_end THEN cleanup_conversation(sessions, c)
                               ELSE sessions
           /\ proc' = [q \in DOMAIN proc |->
                 IF q = p THEN mine
                 ELSE IF HoldsEntry(q, c)
                 THEN LET renewed == trims /\ ~rec.detached /\ ~proc[q].stale
                      IN  [proc[q] EXCEPT
                             !.stale = @ \/ renewed,
                             !.history = IF renewed THEN session.history ELSE @,
                             !.detached = twiml.should_end,
                             !.own = IF twiml.should_end THEN sessions[c] ELSE @]
                 ELSE proc[q]]
    /\ UNCHANGED <<now, meetings_log, fn>>

\* the response is sent; the thread is free for the next request
Respond(p) ==
    /\ proc[p].pc = "responded"
    /\ proc' = [proc EXCEPT ![p] =
          [IdleThread EXCEPT !.calls = proc[p].calls, !.ended = proc[p].ended]]
    /\ UNCHANGED <<now, meetings_log, CALL_SESSIONS, fn>>

Init ==
    /\ now = BookClock[1]
    /\ meetings_log = [st |-> "ok", data |-> <<Entry(SlotTomorrow, "CA0", NoTime)>>]
    /\ CALL_SESSIONS = NoSessions
    /\ proc = [p \in TurnThreads |-> IdleThread]
    /\ fn = NoCall

Next ==
    \/ \E p \in TurnThreads : HandleVoice(p)
    \/ \E p \in TurnThreads : ProcessRecording(p)
    \/ \E p \in TurnThreads : GenerateReply(p)
    \/ \E p \in TurnThreads : SubstituteBooked(p)
    \/ \E p \in TurnThreads : BookSlotCheck(p)
    \/ \E p \in TurnThreads : AppendLoad(p)
    \/ \E p \in TurnThreads : WriteOpen(p)
    \/ \E p \in TurnThreads : WriteDump(p)
    \/ \E p \in TurnThreads : AfterBookSlot(p)
    \/ \E p \in TurnThreads : UpdateMeetingLoad(p)
    \/ \E p \in TurnThreads : AfterUpdateMeeting(p)
    \/ \E p \in TurnThreads : Fallback(p)
    \/ \E p \in TurnThreads : Finish(p)
    \/ \E p \in TurnThreads : Respond(p)
    \/ Tick

Spec == Init /\ [][Next]_vars

---------------------------------------------------------------------------
(* SpecCall: one more request of a call that is in progress.  The call's   *)
(* session holds the history of the turns so far: the system turn, the     *)
(* greeting, then the caller and the assistant in turn; it may have booked *)
(* its slot already.                                                       *)
(***************************************************************************)

MaxHistory == 28      \* the history of the call so far has 2..MaxHistory entries

\* a piece of text; the number tells one wording from another
Words(n) == [k |-> "text", s |-> [ty |-> "words", fmt |-> "bad", t |-> n], alts |-> <<>>]

long_history(n) ==
    [k \in 1..n |->
        IF k = 1 THEN Turn("system", <<Words(k)>>)
        ELSE IF k % 2 = 0 THEN Turn("assistant", <<Words(k)>>)
        ELSE Turn("user", <<Words(k)>>)]

SlotThursday == Text("canon", 10 * 1440 + 8 * 60)      \* Thursday, 08:00

\* the log with another call's booking, and with this call's booking too
LogOthers == [st |-> "ok", data |-> <<Entry(SlotTomorrow, "CA0", NoTime)>>]
LogBooked ==
    [st |-> "ok", data |-> <<Entry(SlotTomorrow, "CA0", NoTime),
                             Entry(SlotThursday, "CA1", BookClock[1])>>]

InitCall ==
    /\ now = BookClock[1]
    /\ fn = NoCall
    /\ proc = [p \in TurnThreads |-> [IdleThread EXCEPT !.calls = MaxTurns - 1]]
    /\ \E n \in 2..MaxHistory :
          \/ /\ meetings_log = LogOthers
             /\ CALL_SESSIONS = [c \in CallSids |->
                   [new_session(LogOthers, now) EXCEPT !.history = long_history(n)]]
          \/ /\ n > 3
             /\ meetings_log = LogBooked
             /\ CALL_SESSIONS = [c \in CallSids |->
                   register_scheduled_slot(
                       [new_session(LogOthers, now) EXCEPT !.history = long_history(n)],
                       SlotThursday)]

SpecCall == InitCall /\ [][Next]_vars

\* SpecTurn: one request of a call the server has not seen yet, and the
\* request thread running on: a step of an accepted request that can be
\* taken is taken (the server works on every request it has accepted).
\* The replies drawn are one of each kind of trouble a turn can meet: a reply
\* that is empty once the marker is gone, a tag that does not parse, a slot
\* that is not a string, a slot that is taken, bookings whose write can fail.
TurnReplies ==
    { <<Tok("text")>>,
      <<Tok("END")>>,
      <<Tok("CALLBACK"), Tok("END")>>,
      <<Tok("text"), TokS("BOOKED", SlotToday)>>,
      <<TokS("BOOKED", SlotTomorrow), Tok("text"), Tok("END")>>,
      <<TokS("BOOKED", SlotToday), TokS("BOOKED", NotAString), Tok("END")>>,
      <<Tok("BOOKED_BADJSON"), Tok("END")>>,
      <<Tok("text"), TokS("WHEN", SlotToday), Tok("END")>> }

GenerateReplyTurn(p) == GenerateReplyFrom(p, TurnReplies)

InitTurn ==
    /\ now = BookClock[1]
    /\ meetings_log = [st |-> "ok", data |-> <<Entry(SlotTomorrow, "CA0", NoTime)>>]
    /\ CALL_SESSIONS = NoSessions
    /\ proc = [p \in TurnThreads |-> [IdleThread EXCEPT !.calls = MaxTurns - 1]]
    /\ fn = NoCall

\* the steps of a request that has been accepted
TurnStep(p) ==
    \/ GenerateReplyTurn(p)
    \/ SubstituteBooked(p)
    \/ BookSlotCheck(p)
    \/ AppendLoad(p)
    \/ WriteOpen(p)
    \/ WriteDump(p)
    \/ AfterBookSlot(p)
    \/ UpdateMeetingLoad(p)
    \/ AfterUpdateMeeting(p)
    \/ Fallback(p)
    \/ Finish(p)

NextTurn ==
    \/ \E p \in TurnThreads : HandleVoice(p)
    \/ \E p \in TurnThreads : ProcessRecording(p)
    \/ \E p \in TurnThreads : TurnStep(p)
    \/ \E p \in TurnThreads : Respond(p)
    \/ Tick

SpecTurn == InitTurn /\ [][NextTurn]_vars /\ \A p \in TurnThreads : WF_vars(TurnStep(p))

---------------------------------------------------------------------------
(* SpecLife: the life of a call identifier over several requests: a call   *)
(* starts, books or asks for a callback, ends, and the identifier is used  *)
(* again.  The replies drawn are the ones that matter to a session's       *)
(* beginning and end.                                                      *)
(***************************************************************************)

LifeReplies ==
    { <<Tok("text")>>,
      <<Tok("text"), Tok("END")>>,
      <<Tok("CALLBACK"), Tok("END")>>,
      <<Tok("text"), TokS("BOOKED", SlotToday)>>,
      <<TokS("BOOKED", SlotToday), Tok("END")>>,
      <<Tok("text"), TokS("WHEN", SlotToday), Tok("END")>> }

GenerateReplyLife(p) == GenerateReplyFrom(p, LifeReplies)

NextLife ==
    \/ \E p \in TurnThreads : HandleVoice(p)
    \/ \E p \in TurnThreads : ProcessRecording(p)
    \/ \E p \in TurnThreads : GenerateReplyLife(p)
    \/ \E p \in TurnThreads : SubstituteBooked(p)
    \/ \E p \in TurnThreads : BookSlotCheck(p)
    \/ \E p \in TurnThreads : AppendLoad(p)
    \/ \E p \in TurnThreads : WriteOpen(p)
    \/ \E p \in TurnThreads : WriteDump(p)
    \/ \E p \in TurnThreads : AfterBookSlot(p)
    \/ \E p \in TurnThreads : UpdateMeetingLoad(p)
    \/ \E p \in TurnThreads : AfterUpdateMeeting(p)
    \/ \E p \in TurnThreads : Fallback(p)
    \/ \E p \in TurnThreads : Finish(p)
    \/ \E p \in TurnThreads : Respond(p)
    \/ Tick

SpecLife == Init /\ [][NextLife]_vars

---------------------------------------------------------------------------
(* SpecRace: two handler threads serve requests of the same call at once   *)
(* (the server runs threaded: a webhook that is retried, or a /voice and a *)
(* /process_recording that overlap).  Each works on the dict get_session   *)
(* gave it; one may end the call while the other is still in its turn.     *)
(***************************************************************************)

RaceReplies ==
    { <<Tok("text")>>,
      <<Tok("CALLBACK"), Tok("END")>>,
      <<Tok("text"), TokS("BOOKED", SlotToday)>>,
      <<Tok("text"), TokS("WHEN", SlotToday)>> }

GenerateReplyRace(p) == GenerateReplyFrom(p, RaceReplies)

InitRace ==
    /\ now = BookClock[1]
    /\ fn = NoCall
    /\ meetings_log = LogOthers
    /\ CALL_SESSIONS = [c \in CallSids |->
          [new_session(LogOthers, now) EXCEPT !.history = long_history(2)]]
    /\ proc = [p \in Threads |-> [IdleThread EXCEPT !.calls = MaxTurns - 1]]

NextRace ==
    \/ \E p \in Threads : HandleVoice(p)
    \/ \E p \in Threads : ProcessRecording(p)
    \/ \E p \in Threads : GenerateReplyRace(p)
    \/ \E p \in Threads : SubstituteBooked(p)
    \/ \E p \in Threads : BookSlotCheck(p)
    \/ \E p \in Threads : AppendLoad(p)
    \/ \E p \in Threads : WriteOpen(p)
    \/ \E p \in Threads : WriteDump(p)
    \/ \E p \in Threads : AfterBookSlot(p)
    \/ \E p \in Threads : UpdateMeetingLoad(p)
    \/ \E p \in Threads : AfterUpdateMeeting(p)
    \/ \E p \in Threads : Fallback(p)
    \/ \E p \in Threads : Finish(p)
    \/ \E p \in Threads : Respond(p)

SpecRace == InitRace /\ [][NextRace]_vars

---------------------------------------------------------------------------
(* SpecDup: overlapping turns of one long call.  The call's history is at  *)
(* the trim's limit; one thread serves one turn, the other two turns one   *)
(* after the other (a webhook delivered again), all for the same call.     *)
(* The replies are plain words, told apart by their wording.               *)
(***************************************************************************)

DupReplies == { <<Words(101)>>, <<Words(102)>> }

GenerateReplyDup(p) == GenerateReplyFrom(p, DupReplies)

InitDup ==
    /\ now = BookClock[1]
    /\ fn = NoCall
    /\ meetings_log = LogOthers
    /\ \E n \in (HistoryLimit - 2)..HistoryLimit :
          CALL_SESSIONS = [c \in CallSids |->
              [new_session(LogOthers, now) EXCEPT !.history = long_history(n)]]
    /\ proc = [p \in Threads |->
          [IdleThread EXCEPT !.calls = IF p = 1 THEN MaxTurns - 1 ELSE MaxTurns - 2]]

NextDup ==
    \/ \E p \in Threads : HandleVoice(p)
    \/ \E p \in Threads : ProcessRecording(p)
    \/ \E p \in Threads : GenerateReplyDup(p)
    \/ \E p \in Threads : SubstituteBooked(p)
    \/ \E p \in Threads : Fallback(p)
    \/ \E p \in Threads : Finish(p)
    \/ \E p \in Threads : Respond(p)

SpecDup == InitDup /\ [][NextDup]_vars

---------------------------------------------------------------------------
(* SpecIso: two calls at once.  Two handler threads serve a call start or  *)
(* a turn each, for the same call identifier or for two, in any order and  *)
(* overlapping; a turn may book and end its call.                          *)
(***************************************************************************)

IsoCallSids == {"CA1", "CA2"}

\* the first thread's request is for one call, the second's for either
IsoCallSidsOf(p) == IF p = 1 THEN {"CA1"} ELSE IsoCallSids

IsoReplies ==
    { <<Tok("text")>>,
      <<TokS("BOOKED", SlotToday), Tok("END")>> }

HandleVoiceIso(p) == HandleVoiceOf(p, IsoCallSidsOf(p))

ProcessRecordingIso(p) == ProcessRecordingOf(p, IsoCallSidsOf(p))

GenerateReplyIso(p) == GenerateReplyFrom(p, IsoReplies)

InitIso ==
    /\ now = BookClock[1]
    /\ fn = NoCall
    /\ meetings_log = LogOthers
    /\ CALL_SESSIONS = NoSessions
    /\ proc = [p \in Threads |-> [IdleThread EXCEPT !.calls = MaxTurns - 1]]

NextIso ==
    \/ \E p \in Threads : HandleVoiceIso(p)
    \/ \E p \in Threads : ProcessRecordingIso(p)
    \/ \E p \in Threads : GenerateReplyIso(p)
    \/ \E p \in Threads : SubstituteBooked(p)
    \/ \E p \in Threads : BookSlotCheck(p)
    \/ \E p \in Threads : AppendLoad(p)
    \/ \E p \in Threads : WriteOpen(p)
    \/ \E p \in Threads : WriteDump(p)
    \/ \E p \in Threads : AfterBookSlot(p)
    \/ \E p \in Threads : UpdateMeetingLoad(p)
    \/ \E p \in Threads : AfterUpdateMeeting(p)
    \/ \E p \in Threads : Fallback(p)
    \/ \E p \in Threads : Finish(p)
    \/ \E p \in Threads : Respond(p)

SpecIso == InitIso /\ [][NextIso]_vars

---------------------------------------------------------------------------
(* SpecHear: overlapping turns of one long call, as SpecDup, with the      *)
(* start of a turn in two steps: the handler takes the session and its     *)
(* history list, then fetches and transcribes the recording, and only then *)
(* appends what the caller said.                                           *)
(***************************************************************************)

\* what the caller said in the turn that thread p serves
Utterance(p) == <<Words(200 + p)>>

\* POST /process_recording up to the transcription: get_session and
\* history = session["history"]
ProcessRecordingStart(p) ==
    /\ proc[p].pc = "idle"
    /\ proc[p].calls < MaxTurns
    /\ \E c \in CallSids :
          LET sessions == get_session(c, meetings_log, now)
          IN  /\ CALL_SESSIONS' = sessions
              /\ proc' = [proc EXCEPT ![p] =
                    [request_start(proc[p], c, "process_recording", sessions) EXCEPT
                        !.pc = "transcribe"]]
    /\ UNCHANGED <<now, meetings_log, fn>>

\* the recording is processed: it raises, nothing was said, or the
\* utterance is appended to the handler's history list
Transcribe(p) ==
    /\ proc[p].pc = "transcribe"
    /\ \E heard \in {"said", "nothing", "error"} :
          LET rec == proc[p]
              appended == Append(history_of(rec), Turn("user", Utterance(p)))
              sess == IF rec.stale THEN session_of(rec)
                      ELSE [session_of(rec) EXCEPT !.history = appended]
          IN  IF heard = "error"
              THEN /\ UNCHANGED CALL_SESSIONS
                   /\ proc' = [proc EXCEPT ![p] =
                         [rec EXCEPT !.pc = "responded",
                                     !.spoken = handle_transcription_error("COULD_NOT_UNDERSTAND")]]
              ELSE IF heard = "nothing"
              THEN /\ UNCHANGED CALL_SESSIONS
                   /\ proc' = [proc EXCEPT ![p] =
                         [rec EXCEPT !.pc = "responded",
                                     !.spoken = handle_transcription_error("DID_NOT_CATCH")]]
              ELSE /\ CALL_SESSIONS' = sessions_with(rec, sess)
                   /\ proc' = [proc EXCEPT ![p] =
                         [rec_with(rec, sess) EXCEPT
                             !.pc = "generate",
                             !.history = IF rec.stale THEN appended ELSE @]]
    /\ UNCHANGED <<now, meetings_log, fn>>

NextHear ==
    \/ \E p \in Threads : ProcessRecordingStart(p)
    \/ \E p \in Threads : Transcribe(p)
    \/ \E p \in Threads : GenerateReplyDup(p)
    \/ \E p \in Threads : SubstituteBooked(p)
    \/ \E p \in Threads : Fallback(p)
    \/ \E p \in Threads : Finish(p)
    \/ \E p \in Threads : Respond(p)

SpecHear == InitDup /\ [][NextHear]_vars

---------------------------------------------------------------------------
(* voice_server.py: the name of a booking.  A piece of a turn's text that  *)
(* one of the three searches of _extract_name_from_history matches is      *)
(* [k, s] with k the search, "MY_NAME_IS", "I_AM" or "SHMI" (the Hebrew    *)
(* patterns), and s the name it captures.                                  *)

Name(n) == [ty |-> "name", fmt |-> "bad", t |-> n]
NoName == NoSlot                                        \* None, or no "name" key
EmptyName == [ty |-> "name", fmt |-> "bad", t |-> 0]    \* ""

\* history[-8:]
NameWindow == 8

\* the first piece of text that the search k matches, 0 when none does
RECURSIVE name_search(_, _, _)
name_search(text, k, i) ==
    IF i > Len(text) THEN 0
    ELSE IF text[i].k = k THEN i
    ELSE name_search(text, k, i + 1)

\* the searches on one text in the order of the code: "my name is", then
\* "i am", then the Hebrew patterns
name_in_text(text) ==
    IF name_search(text, "MY_NAME_IS", 1) # 0 THEN text[name_search(text, "MY_NAME_IS", 1)].s
    ELSE IF name_search(text, "I_AM", 1) # 0 THEN text[name_search(text, "I_AM", 1)].s
    ELSE IF name_search(text, "SHMI", 1) # 0 THEN text[name_search(text, "SHMI", 1)].s
    ELSE NoName

\* for msg in reversed(history[-8:]), from entry i down to entry first
RECURSIVE name_loop(_, _, _)
name_loop(history, i, first) ==
    IF i < first THEN NoName
    ELSE IF history[i].role # "user" THEN name_loop(history, i - 1, first)
    ELSE IF history[i].content = <<>> THEN name_loop(history, i - 1, first)
    ELSE IF name_in_text(history[i].content) # NoName THEN name_in_text(history[i].content)
    ELSE name_loop(history, i - 1, first)

\* a plausible slip: the window read from its oldest entry on
RECURSIVE name_loop_up(_, _, _)
name_loop_up(history, i, last) ==
    IF i > last THEN NoName
    ELSE IF history[i].role = "user" /\ name_in_text(history[i].content) # NoName
    THEN name_in_text(history[i].content)
    ELSE name_loop_up(history, i + 1, last)

extract_name_from_history_OldestFirst(history) ==
    name_loop_up(history, IF Len(history) > NameWindow THEN Len(history) - NameWindow + 1 ELSE 1,
                 Len(history))

\* _extract_name_from_history(history)
extract_name_from_history(history) ==
    IF history = <<>> THEN NoName
    ELSE name_loop(history, Len(history),
                   IF Len(history) > NameWindow THEN Len(history) - NameWindow + 1 ELSE 1)

\* _handle_booked: the entry's name and pending_name_extraction after
\* "if not entry.get('name')"
fill_name(payload_name, history) ==
    IF payload_name \notin {NoName, EmptyName}
    THEN [name |-> payload_name, pending |-> FALSE]
    ELSE IF extract_name_from_history(history) # NoName
    THEN [name |-> extract_name_from_history(history), pending |-> FALSE]
    ELSE [name |-> payload_name, pending |-> TRUE]

---------------------------------------------------------------------------
(* SpecName: the name of a booking, for drawn histories and payloads *)

MaxNameHistory == 10  \* the history has 0..MaxNameHistory entries

\* a user turn in which no search matches
PlainTurn == Turn("user", <<Tok("text")>>)

\* the other turns: user turns with a name, one of them with two, a user
\* turn with no text, turns of the assistant and the system that the
\* searches would match
NameTurns ==
    { PlainTurn,
      Turn("user", <<Tok("text"), TokS("MY_NAME_IS", Name(1))>>),
      Turn("user", <<TokS("I_AM", Name(2)), Tok("text")>>),
      Turn("user", <<TokS("SHMI", Name(3))>>),
      Turn("user", <<TokS("I_AM", Name(4)), TokS("MY_NAME_IS", Name(5))>>),
      Turn("user", <<>>),
      Turn("assistant", <<TokS("I_AM", Name(6)), Tok("text")>>),
      Turn("system", <<TokS("MY_NAME_IS", Name(7))>>) }

\* histories of plain user turns with up to two other turns among them
NameHistories ==
    UNION { { [i \in 1..n |-> IF i = p1 THEN a1 ELSE IF i = p2 THEN a2 ELSE PlainTurn] :
                p1 \in 1..n, p2 \in 1..n, a1 \in NameTurns, a2 \in NameTurns } :
            n \in 0..MaxNameHistory }

\* the name of the payload: none, "", or given
PayloadNames == {NoName, EmptyName, Name(9)}

InitName ==
    /\ now = BookClock[1]
    /\ meetings_log = [st |-> "absent", data |-> <<>>]
    /\ CALL_SESSIONS = NoSessions
    /\ proc = NoProcs
    /\ \E history \in NameHistories : fn = [NoCall EXCEPT !.hist = history]

\* the name is filled in for a BOOKED payload
FillNameCall ==
    \E payload_name \in PayloadNames :
        /\ fn.op = "none"
        /\ fn' = [fn EXCEPT !.op = "fill_name", !.name_in = payload_name,
                            !.name_out = fill_name(payload_name, fn.hist).name,
                            !.pending = fill_name(payload_name, fn.hist).pending]
        /\ UNCHANGED <<now, meetings_log, CALL_SESSIONS, proc>>

NextName == FillNameCall

SpecName == InitName /\ [][NextName]_vars

---------------------------------------------------------------------------
(* SpecLog: log_meeting_if_needed called on a session, call after call.    *)
(* The function reads the session, appends through append_meeting and     *)
(* write_meetings, and sets meeting_logged when append_meeting returned.   *)

MaxLogCalls == 3      \* log_meeting_if_needed calls in one run

\* the session of the calls: no slot scheduled, or SlotA or SlotB scheduled
\* (by a booking that put it in the ledger, or with the ledger not holding it)
InitLog ==
    /\ now = BookClock[1]
    /\ meetings_log \in LogInputs
    /\ \E slot \in {NoSlot, SlotA, SlotB} :
          CALL_SESSIONS =
            [c \in CallSids |->
                IF slot = NoSlot THEN new_session(meetings_log, now)
                ELSE register_scheduled_slot(new_session(meetings_log, now), slot)]
    /\ proc = [p \in TurnThreads |-> IdleThread]
    /\ fn = NoCall

\* log_meeting_if_needed(session, call_sid) up to append_meeting: the two
\* early returns, else the entry is built
LogMeetingCall(p) ==
    /\ proc[p].pc = "idle"
    /\ proc[p].calls < MaxLogCalls
    /\ \E c \in CallSids :
          LET session == CALL_SESSIONS[c]
              mine == [IdleThread EXCEPT !.calls = proc[p].calls + 1, !.call_sid = c]
          IN  proc' = [proc EXCEPT ![p] =
                IF session.meeting_logged \/ session.scheduled_slot = NoSlot
                THEN [mine EXCEPT !.pc = "logged"]
                ELSE [mine EXCEPT !.pc = "lm_load",
                                  !.entry = Entry(session.scheduled_slot, c, NoTime),
                                  !.to_append = Entry(session.scheduled_slot, c, now)]]
    /\ UNCHANGED <<now, meetings_log, CALL_SESSIONS, fn>>

\* append_meeting(entry) called by log_meeting_if_needed: the load
LogAppendLoad(p) ==
    /\ proc[p].pc = "lm_load"
    /\ proc' = [proc EXCEPT ![p] =
            [@ EXCEPT !.pc = "wm_open", !.wm_to = "lm_appended",
                      !.seen = load_meetings(meetings_log),
                      !.entries = Append(load_meetings(meetings_log), proc[p].to_append)]]
    /\ UNCHANGED <<now, meetings_log, CALL_SESSIONS, fn>>

\* session["meeting_logged"] = True
LogMeetingSet(p) ==
    /\ proc[p].pc = "lm_appended"
    /\ CALL_SESSIONS' = [CALL_SESSIONS EXCEPT ![proc[p].call_sid].meeting_logged = TRUE]
    /\ proc' = [proc EXCEPT ![p] = [@ EXCEPT !.pc = "logged"]]
    /\ UNCHANGED <<now, meetings_log, fn>>

\* log_meeting_if_needed has returned
LogMeetingDone(p) ==
    /\ proc[p].pc = "logged"
    /\ proc' = [proc EXCEPT ![p] = [IdleThread EXCEPT !.calls = proc[p].calls]]
    /\ UNCHANGED <<now, meetings_log, CALL_SESSIONS, fn>>

NextLog ==
    \/ \E p \in TurnThreads : LogMeetingCall(p)
    \/ \E p \in TurnThreads : LogAppendLoad(p)
    \/ \E p \in TurnThreads : WriteOpen(p)
    \/ \E p \in TurnThreads : WriteDump(p)
    \/ \E p \in TurnThreads : LogMeetingSet(p)
    \/ \E p \in TurnThreads : LogMeetingDone(p)

SpecLog == InitLog /\ [][NextLog]_vars

---------------------------------------------------------------------------
(* SpecSession: ensure_proposed_slots, advance_slot_options and            *)
(* register_scheduled_slot called on a session in any order.               *)

MaxAvail == 4         \* the session's available_slots has 0..MaxAvail slots
MaxBatch == 3         \* the batch of a call is one of 1..MaxBatch
MaxSessionCalls == 6  \* calls on the session in one run

\* the step of advance_slot_options: left out, or given
StepInputs == {NoStep, 1, 2}

\* slots handed to register_scheduled_slot: the first two of the list, one
\* that is not in it, one written differently
RegisterInputs == {SlotA, Text("canon", 7 * 1440 + 9 * 60), SlotB, SlotC}

\* a new session whose list holds the first slots of the calendar
InitSession ==
    /\ now = BookClock[1]
    /\ meetings_log = [st |-> "absent", data |-> <<>>]
    /\ \E k \in 0..MaxAvail :
          CALL_SESSIONS =
            [c \in CallSids |->
                [new_session(meetings_log, now) EXCEPT !.available_slots = SubSeq(@, 1, k)]]
    /\ proc = NoProcs
    /\ fn = NoCall

\* what every call on the session records
session_call(op, c, arg) ==
    [fn EXCEPT !.op = op, !.n = fn.n + 1, !.arg = arg,
               !.before = [proposed_slots |-> CALL_SESSIONS[c].proposed_slots,
                           slot_index |-> CALL_SESSIONS[c].slot_index]]

\* a call ensure_proposed_slots(session, batch)
EnsureCall ==
    \E c \in CallSids, batch \in 1..MaxBatch :
        /\ fn.n < MaxSessionCalls
        /\ LET call == ensure_proposed_slots(CALL_SESSIONS[c], batch)
               made == CALL_SESSIONS[c].proposed_slots = <<>>
           IN  /\ CALL_SESSIONS' = [CALL_SESSIONS EXCEPT ![c] = call.session]
               /\ fn' = [session_call("ensure", c, batch) EXCEPT
                            !.res = call.out, !.ensured = TRUE,
                            !.offered = IF made THEN fn.offered \o call.out ELSE fn.offered]
        /\ UNCHANGED <<now, meetings_log, proc>>

\* a call advance_slot_options(session) or advance_slot_options(session, step)
AdvanceCall ==
    \E c \in CallSids, step \in StepInputs :
        /\ fn.n < MaxSessionCalls
        /\ CALL_SESSIONS' = [CALL_SESSIONS EXCEPT ![c] = advance_slot_options(@, step)]
        /\ fn' = [session_call("advance", c, step) EXCEPT
                     !.res = <<>>, !.ensured = FALSE,
                     !.rounds = fn.rounds /\ fn.ensured /\ step = NoStep]
        /\ UNCHANGED <<now, meetings_log, proc>>

\* a call register_scheduled_slot(session, slot)
RegisterCall ==
    \E c \in CallSids, slot \in RegisterInputs :
        /\ fn.n < MaxSessionCalls
        /\ CALL_SESSIONS' = [CALL_SESSIONS EXCEPT ![c] = register_scheduled_slot(@, slot)]
        /\ fn' = [session_call("register", c, 0) EXCEPT
                     !.slot = slot, !.res = <<>>, !.rounds = FALSE]
        /\ UNCHANGED <<now, meetings_log, proc>>

NextSession == EnsureCall \/ AdvanceCall \/ RegisterCall

SpecSession == InitSession /\ [][NextSession]_vars

---------------------------------------------------------------------------
(* SpecRepair: _adjust_slot_to_future_within_window applied to drawn slots *)
(* at drawn times, the meetings log in each condition.                     *)

\* the logs of SpecRead, and one holding a Monday 08:00 two weeks running
RepairInputs ==
    ReadInputs \cup
    { [st |-> "ok", data |-> <<Entry(SlotA, "CA1", NoTime),
                               Entry(Text("canon", 14 * 1440 + 8 * 60), "CA2", NoTime)>>] }

InitRepair ==
    /\ now \in NowValues
    /\ meetings_log \in RepairInputs
    /\ CALL_SESSIONS = NoSessions
    /\ proc = NoProcs
    /\ fn = NoCall

\* a call _adjust_slot_to_future_within_window(slot_str)
AdjustCall ==
    \E slot_str \in SlotTexts :
        /\ fn.op = "none"
        /\ LET raises == adjust_slot_to_future_within_window_raises(
                              slot_str, DefaultDays, meetings_log, now)
           IN  fn' = [NoCall EXCEPT
                        !.op = "adjust", !.slot = slot_str, !.days = DefaultDays,
                        !.t_now = now, !.file = meetings_log, !.raised = raises,
                        !.adj = IF raises THEN NoSlot
                                ELSE adjust_slot_to_future_within_window(
                                         slot_str, DefaultDays, meetings_log, now)]
        /\ UNCHANGED <<now, meetings_log, CALL_SESSIONS, proc>>

NextRepair == AdjustCall

SpecRepair == InitRepair /\ [][NextRepair]_vars

---------------------------------------------------------------------------
(* SpecLedger: update_meeting called with drawn parameters on drawn logs,  *)
(* by one thread, call after call.                                         *)
(***************************************************************************)

MaxUpdates == 2       \* update_meeting calls in one run

\* the slot, call id and updates of the calls
UpdateSlots == {SlotA, SlotB, Text("canon", 7 * 1440 + 9 * 60)}
UpdateCallSids == {NoCallSid, "CA1", "CA2"}
UpdateInputs ==
    { NoUpdates, EmptyUpdates,
      [given |-> TRUE, with |-> [k \in {"logged_at"} |-> 77]],
      [given |-> TRUE, with |-> [k \in {"call_sid"} |-> "CA9"]] }

InitLedger ==
    /\ now = BookClock[1]
    /\ meetings_log \in LogInputs
    /\ CALL_SESSIONS = NoSessions
    /\ proc = [p \in TurnThreads |-> IdleThread]
    /\ fn = NoCall

\* a call update_meeting(slot, call_sid, updates): "if updates is None:
\* return False"
UpdateMeetingCall(p) ==
    /\ proc[p].pc = "idle"
    /\ proc[p].calls < MaxUpdates
    /\ \E slot \in UpdateSlots, sid \in UpdateCallSids, updates \in UpdateInputs :
          proc' = [proc EXCEPT ![p] =
              [IdleThread EXCEPT !.calls = proc[p].calls + 1,
                                 !.entry = Entry(slot, sid, NoTime),
                                 !.call_sid = sid, !.updates = updates,
                                 !.pc = IF updates.given THEN "um_load" ELSE "updated"]]
    /\ UNCHANGED <<now, meetings_log, CALL_SESSIONS, fn>>

\* update_meeting has returned
UpdateMeetingDone(p) ==
    /\ proc[p].pc = "updated"
    /\ proc' = [proc EXCEPT ![p] = [IdleThread EXCEPT !.calls = proc[p].calls]]
    /\ UNCHANGED <<now, meetings_log, CALL_SESSIONS, fn>>

NextLedger ==
    \/ \E p \in TurnThreads : UpdateMeetingCall(p)
    \/ \E p \in TurnThreads : UpdateMeetingLoad(p)
    \/ \E p \in TurnThreads : WriteOpen(p)
    \/ \E p \in TurnThreads : WriteDump(p)
    \/ \E p \in TurnThreads : UpdateMeetingDone(p)

SpecLedger == InitLedger /\ [][NextLedger]_vars

---------------------------------------------------------------------------
(* The slot calendar's claims, checked under SpecSlots *)

\* the rule a slot obeys, as the data model states it: Sunday..Thursday, a
\* start on the hour from 08:00 to 15:00
BusinessStart(t) ==
    /\ DayOf(t) % 7 \in {6, 0, 1, 2, 3}
    /\ HourOf(t) \in 8..15
    /\ MinuteOf(t) = 0

\* the window of `days` calendar days that starts today
InWindow(t, t_now, days) == DayOf(t) \in DayOf(t_now)..(DayOf(t_now) + days - 1)

Generated == fn.op = "generate"
Asked == fn.op = "is_slot_available"

\* C5: every slot generate_available_slots returns falls on Sunday..Thursday,
\* starts on the hour between 08:00 and 15:00, and is strictly after the
\* current instant.
C5_GeneratedSlotsAreBusinessStartsInFuture ==
    Generated =>
        \A i \in 1..Len(fn.out) :
            /\ strptime_ok(fn.out[i])
            /\ BusinessStart(strptime(fn.out[i]))
            /\ strptime(fn.out[i]) > fn.t_now

\* on a day of business, after some of its starts have passed, the list still
\* holds a 15:00 start and a Sunday start
C5_Witness ==
    /\ Generated
    /\ HourOf(fn.t_now) = 8 /\ weekday(fn.t_now) \in {6, 0, 1, 2, 3}
    /\ \E i \in 1..Len(fn.out) : HourOf(fn.out[i].t) = 15
    /\ \E i \in 1..Len(fn.out) : weekday(fn.out[i].t) = 6

\* C6: generate_available_slots never returns a member of the booked list.
C6_GeneratedSlotsNotBooked ==
    Generated => \A i \in 1..Len(fn.out) : fn.out[i] \notin Range(fn.booked)

\* a booked slot that the same call would have returned had it been free
C6_Witness ==
    /\ Generated
    /\ Len(fn.out) > 0
    /\ \E b \in Range(fn.booked) :
          b \in Range(generate_available_slots(<<>>, fn.days, fn.t_now))

\* C7: generate_available_slots(booked, days) returns, strictly increasing in
\* time, exactly the starts on the hour 08:00..15:00 of the Sunday..Thursday
\* days among the `days` calendar days from today on that are after the
\* current instant and not booked.
C7_GeneratedExactlyTheFreeStarts ==
    Generated =>
        /\ \A i \in 1..(Len(fn.out) - 1) : fn.out[i].t < fn.out[i + 1].t
        /\ \A i \in 1..Len(fn.out) : fn.out[i] = strftime(fn.out[i].t)
        /\ {fn.out[i].t : i \in 1..Len(fn.out)}
             = {t \in {d * 1440 + h * 60 :
                         d \in DayOf(fn.t_now)..(DayOf(fn.t_now) + fn.days - 1),
                         h \in 0..23} :
                    /\ BusinessStart(t)
                    /\ t > fn.t_now
                    /\ strftime(t) \notin Range(fn.booked)}

\* the default window, with a booked slot left out, a start of today already
\* past, and a weekend inside the window
C7_Witness ==
    /\ Generated
    /\ fn.days = DefaultDays
    /\ Len(fn.out) > 2 * 8
    /\ HourOf(fn.t_now) = 15 /\ weekday(fn.t_now) \in {6, 0, 1, 2, 3}
    /\ \E b \in Range(fn.booked) :
          b \in Range(generate_available_slots(<<>>, fn.days, fn.t_now))

\* the log has an entry whose slot is this very text
InLedger(slot_str, file) ==
    \E i \in 1..Len(load_meetings(file)) : load_meetings(file)[i].slot = slot_str

\* C8: is_slot_available(slot) is true exactly when slot is well-formed and a
\* member of generate_available_slots computed from the log as it is at the
\* call; a slot in the log, a past slot, a slot off the hour or a slot outside
\* the window is never available.
C8_AvailableIffInFreshList ==
    Asked =>
        LET s == fn.slot
            fresh == generate_available_slots(get_booked_slots(fn.file), DefaultDays, fn.t_now)
        IN  /\ fn.ok = (strptime_ok(s) /\ s \in Range(fresh))
            /\ fn.ok = ( /\ strptime_ok(s)
                         /\ s = strftime(strptime(s))
                         /\ BusinessStart(strptime(s))
                         /\ strptime(s) > fn.t_now
                         /\ InWindow(strptime(s), fn.t_now, DefaultDays)
                         /\ ~InLedger(s, fn.file) )
            /\ InLedger(s, fn.file) => ~fn.ok
            /\ (strptime_ok(s) /\ strptime(s) <= fn.t_now) => ~fn.ok
            /\ (strptime_ok(s) /\ MinuteOf(strptime(s)) # 0) => ~fn.ok
            /\ (strptime_ok(s) /\ ~InWindow(strptime(s), fn.t_now, DefaultDays)) => ~fn.ok

\* a slot found available while the log holds other bookings
C8_Witness ==
    /\ Asked
    /\ fn.ok
    /\ Len(load_meetings(fn.file)) > 1

---------------------------------------------------------------------------
(* book_slot's claims, checked under SpecBook *)

\* what makes a slot unbookable, as the contract lists it
Unavailable(slot, file, t_now) ==
    \/ slot.ty # "str"
    \/ slot.fmt = "bad"
    \/ InLedger(slot, file)
    \/ slot.t <= t_now
    \/ DayOf(slot.t) % 7 \notin {6, 0, 1, 2, 3}
    \/ HourOf(slot.t) \notin 8..15
    \/ ~InWindow(slot.t, t_now, DefaultDays)

\* the clock and the calendar still allow the slot
StillBookable(slot, t_now) ==
    is_slot_available(slot, DefaultDays, [st |-> "ok", data |-> <<>>], t_now)

\* C1: of two concurrent book_slot calls for the same free slot, exactly one
\* returns success, under every interleaving of their steps.
C1_ExactlyOneConcurrentCallWins ==
    \A p, q \in Threads :
        ( /\ p # q
          /\ proc[p].pc = "returned" /\ proc[q].pc = "returned"
          /\ proc[p].entry.slot = proc[q].entry.slot
          /\ q \in proc[p].overlap
          /\ proc[p].avail0 /\ proc[q].avail0
          /\ ~proc[p].io_failed /\ ~proc[q].io_failed
          /\ StillBookable(proc[p].entry.slot, now) )
        => (proc[p].ret # proc[q].ret)

\* C2: in every reachable state the log holds at most one entry per slot.
C2_AtMostOneEntryPerSlot ==
    \A i, j \in 1..Len(load_meetings(meetings_log)) :
        i # j => load_meetings(meetings_log)[i].slot # load_meetings(meetings_log)[j].slot

\* C3: book_slot with a slot that is not a string, is malformed or is not
\* available (in the log, past, outside Sunday..Thursday 08:00..15:00 or
\* outside the window) returns False, and a call that returns False has not
\* touched the log.
C3_UnavailableReturnsFalseLogUntouched ==
    [][\A p \in Threads :
          /\ ( /\ proc[p].pc = "idle" /\ proc'[p].pc # "idle"
               /\ proc'[p].entry.slot.ty # "str" )
             => ( /\ proc'[p].pc = "returned" /\ ~proc'[p].ret
                  /\ meetings_log' = meetings_log )
          /\ ( /\ proc[p].pc = "bs_check" /\ proc'[p].pc # "bs_check"
               /\ Unavailable(proc[p].entry.slot, meetings_log, now) )
             => ( /\ proc'[p].pc = "returned" /\ ~proc'[p].ret
                  /\ meetings_log' = meetings_log )
          /\ ( /\ proc[p].pc # "returned" /\ proc'[p].pc = "returned"
               /\ ~proc'[p].ret )
             => ( /\ proc[p].pc \in {"idle", "bs_check"}
                  /\ meetings_log' = meetings_log )
      ]_vars

\* a call for a slot that the log already holds has returned False
C3_Witness ==
    \E p \in Threads :
        /\ proc[p].pc = "returned" /\ ~proc[p].ret
        /\ proc[p].entry.slot.fmt = "canon"
        /\ InLedger(proc[p].entry.slot, meetings_log)

\* C4: book_slot with an available slot returns True and leaves the log one
\* entry longer: the entries it found, unchanged and in their order, then the
\* given entry with logged_at.
C4_AvailableAppendsExactlyOneEntry ==
    [][\A p \in Threads :
          ( /\ proc[p].pc \in {"wm_open", "wm_dump"}
            /\ proc'[p].pc = "returned" )
          => ( /\ proc'[p].ret
               /\ meetings_log' =
                    [st |-> "ok", data |-> Append(proc[p].seen, proc[p].to_append)] )
      ]_vars

---------------------------------------------------------------------------
(* The turn handler's claims, checked under Spec *)

\* a piece of literal tag markup
IsMarkup(tok) ==
    tok.k \in {"END", "END_HEAD", "END_TAIL", "BOOKED", "BOOKED_BADJSON", "BOOKED_NOSLOT",
               "BOOKED_BARE", "CALLBACK", "SEND_INFO"}

\* the text holds a whole [[...]] tag
HasTag(text) == HasEndMarker(text) \/ HasWrapUpTag(text)

\* thread p has answered a turn and the response is about to be sent
TurnAnswered(p) == proc[p].pc = "responded" /\ proc[p].route = "process_recording"

\* C9: whenever the model's reply of a turn holds a [[...]] tag (BOOKED,
\* CALLBACK_NEEDED, SEND_INFO or END_CALL, bare or with a payload, its JSON
\* well-formed or not), the text the turn returns to be spoken holds no
\* piece of tag markup.
C9_SpokenTextHasNoTagMarkup ==
    \A p \in DOMAIN proc :
        TurnAnswered(p) /\ HasTag(proc[p].reply)
            => \A k \in 1..Len(proc[p].spoken) : ~IsMarkup(proc[p].spoken[k])

\* C10: a turn ends the call only with a disposition.  A turn that reports
\* should-end found a scheduled_slot in the session at the guard or had
\* another wrap-up tag in the model's reply; and a reply with the end marker,
\* with no scheduled_slot at the guard and no other wrap-up tag, gives
\* should-end false, keeps the session and leaves no end marker in the text.
C10_CallEndsOnlyWithDisposition ==
    \A p \in DOMAIN proc :
        TurnAnswered(p) =>
            /\ proc[p].should_end
                  => \/ proc[p].sched_at_guard # NoSlot
                     \/ HasWrapUpTag(proc[p].reply)
            /\ ( /\ HasEndMarker(proc[p].reply)
                 /\ proc[p].sched_at_guard = NoSlot
                 /\ ~HasWrapUpTag(proc[p].reply) )
                  => /\ ~proc[p].should_end
                     /\ proc[p].call_sid \in DOMAIN CALL_SESSIONS
                     /\ ~HasEndMarker(proc[p].spoken)

\* the entries of the meetings log as a reader finds them
Ledger == load_meetings(meetings_log)

\* thread p's step ends the handling of a BOOKED tag by _handle_booked
TagHandled(p) ==
    /\ proc[p].phase = "tag"
    /\ proc[p].pc \in {"booked", "updated"}
    /\ proc'[p].pc \in {"sub", "finish"}

\* C11: when a reply carries a well-formed BOOKED tag whose slot is available
\* as _handle_booked looks at it (and the clock does not pass the slot
\* meanwhile), then at the end of the tag's handling the ledger is the ledger
\* of that moment plus exactly one entry with that slot and this call's id,
\* the session's scheduled_slot is that slot, and the tag has given way to
\* the confirmation sentence naming that slot.
C11_AvailableTagBooksOnceAndConfirms ==
    [][\A p \in DOMAIN proc :
          ( /\ TagHandled(p)
            /\ proc[p].avail0
            /\ StillBookable(proc[p].reply[proc[p].i].s, now') ) =>
              LET slot == proc[p].reply[proc[p].i].s
                  c == proc[p].call_sid
                  ledger == load_meetings(meetings_log')
              IN  /\ Len(ledger) = Len(proc[p].log0) + 1
                  /\ SubSeq(ledger, 1, Len(proc[p].log0)) = proc[p].log0
                  /\ ledger[Len(ledger)].slot = slot
                  /\ ledger[Len(ledger)].call_sid = c
                  /\ c \in DOMAIN CALL_SESSIONS'
                  /\ CALL_SESSIONS'[c].scheduled_slot = slot
                  /\ proc'[p].pc = "sub"
                  /\ proc'[p].out = Append(proc[p].out, TokS("RECORDED", slot))]_vars

\* C12: when a reply carries a BOOKED tag for a slot that is in the ledger
\* (the session has no scheduled_slot, no write fails), book_slot returns False, the
\* ledger stays as it was, scheduled_slot stays unset, available_slots is
\* generated anew from the ledger, and the tag gives way to the sentence that
\* offers the first two slots of that list.
C12_BookedSlotIsRefusedWithAlternatives ==
    [][\A p \in DOMAIN proc :
          ( /\ TagHandled(p)
            /\ proc[p].booked0
            /\ proc[p].sched0 = NoSlot
            /\ ~proc'[p].io_failed ) =>
              LET c == proc[p].call_sid
                  fresh == generate_available_slots(get_booked_slots(meetings_log'),
                                                    DefaultDays, now')
              IN  /\ ~proc[p].ret
                  /\ load_meetings(meetings_log') = proc[p].log0
                  /\ c \in DOMAIN CALL_SESSIONS'
                  /\ CALL_SESSIONS'[c].scheduled_slot = NoSlot
                  /\ CALL_SESSIONS'[c].available_slots = fresh
                  /\ proc'[p].pc = "sub"
                  /\ proc'[p].out = Append(proc[p].out,
                        [k |-> "NO_LONGER_AVAILABLE", s |-> NoSlot,
                         alts |-> SubSeq(fresh, 1, IF Len(fresh) < 2 THEN Len(fresh) ELSE 2)])]_vars

\* C16: in a turn whose reply held a recognized BOOKED tag (booked, refused
\* or its payload discarded) the fallback adds no ledger entry: where it set
\* out to book, the answered turn finds the ledger as the fallback found it.
C16_FallbackOnlyWithoutBookedTag ==
    \A p \in DOMAIN proc :
        ( /\ TurnAnswered(p)
          /\ next_booked(proc[p].reply, 1) # 0
          /\ proc[p].phase = "fallback"
          /\ ~proc[p].io_failed )
        => Ledger = proc[p].log0

\* the only date and time in the reply is in the payload of a BOOKED tag
\* whose JSON is malformed
OnlyMalformedTag(reply) ==
    /\ \E k \in 1..Len(reply) : reply[k].k = "BOOKED_BADJSON"
    /\ \A k \in 1..Len(reply) :
          reply[k].k \notin {"BOOKED", "BOOKED_NOSLOT", "WHEN", "DAYTIME"}

\* C17: a BOOKED tag with a malformed JSON payload is a no-op: the turn is
\* answered, and the tag brings no ledger entry and no change of the
\* session's scheduled_slot.
C17_MalformedTagIsNoOp ==
    \A p \in DOMAIN proc :
        ( /\ TurnAnswered(p)
          /\ OnlyMalformedTag(proc[p].reply)
          /\ ~proc[p].io_failed )
        => /\ Ledger = proc[p].log_start
           /\ proc[p].sched_at_guard = proc[p].sched_start

---------------------------------------------------------------------------
(* Claims about a call in progress, checked under SpecCall *)

\* C13: when the history holds more than 24 entries at the trim step of a
\* turn, the session's history after the turn is entry 0 followed by the last
\* 23 entries in their order: 24 entries in all (seen where the session
\* outlives the turn).
C13_TrimKeepsFirstAndLast23 ==
    \A p \in DOMAIN proc :
        ( /\ TurnAnswered(p)
          /\ Len(proc[p].hist_trim) > 24
          /\ ~proc[p].should_end )
        => LET before == proc[p].hist_trim
               after == CALL_SESSIONS[proc[p].call_sid].history
           IN  /\ Len(after) = 24
               /\ after[1] = before[1]
               /\ \A k \in 2..24 : after[k] = before[Len(before) - 24 + k]

\* a turn whose trim step found 30 entries has been answered
C13_Witness ==
    \E p \in DOMAIN proc :
        /\ TurnAnswered(p)
        /\ Len(proc[p].hist_trim) = 30
        /\ ~proc[p].should_end
        /\ Len(CALL_SESSIONS[proc[p].call_sid].history) = 24

\* C14: a turn that starts with at most 24 entries in the session's history
\* leaves at most 24, whatever its outcome.
C14_HistoryAtMost24AfterEveryTurn ==
    \A p \in DOMAIN proc :
        ( /\ TurnAnswered(p)
          /\ proc[p].hist_start <= 24
          /\ proc[p].call_sid \in DOMAIN CALL_SESSIONS )
        => Len(CALL_SESSIONS[proc[p].call_sid].history) <= 24

\* thread p is serving a turn or has answered it
InTurn(p) == proc[p].route = "process_recording" /\ proc[p].pc # "idle"

\* the fallback would find a date and time, or a weekday and time, in p's
\* reply and the slot is available
FallbackWouldBook(p) ==
    /\ slot_guess(proc[p].reply, now) # NoSlot
    /\ is_slot_available(slot_guess(proc[p].reply, now), DefaultDays, meetings_log, now)

\* C15: in a turn of a session that already has a scheduled_slot the
\* fallback never sets out to book, whatever the reply holds; with no BOOKED
\* tag in the reply the ledger and scheduled_slot stay as the turn found them.
C15_FallbackLeavesScheduledSessionAlone ==
    \A p \in DOMAIN proc :
        InTurn(p) /\ proc[p].sched_start # NoSlot
        => /\ proc[p].phase # "fallback"
           /\ next_booked(proc[p].reply, 1) = 0
                 => /\ Ledger = proc[p].log_start
                    /\ proc[p].call_sid \in DOMAIN CALL_SESSIONS
                          => CALL_SESSIONS[proc[p].call_sid].scheduled_slot
                                = proc[p].sched_start

\* a turn of a session with a scheduled_slot has been answered whose reply
\* named, by weekday and time, a slot that is available
C15_Witness ==
    \E p \in DOMAIN proc :
        /\ TurnAnswered(p)
        /\ proc[p].sched_start # NoSlot
        /\ next_booked(proc[p].reply, 1) = 0
        /\ iso_guess(proc[p].reply, 1) = NoSlot
        /\ FallbackWouldBook(p)

\* C18: a turn reports should-end, and the session of its call is gone from
\* CALL_SESSIONS once it has answered, exactly when the reply still holds the
\* end marker after the guard; after every other outcome of a turn (a reply
\* without the marker, a marker the guard took away, an utterance not
\* understood, a failed completion) the session is still in the map.
C18_EndMarkerAfterGuardEndsAndDiscards ==
    \A p \in DOMAIN proc :
        TurnAnswered(p)
            => /\ proc[p].should_end <=> HasEndMarker(proc[p].final)
               /\ HasEndMarker(proc[p].final) <=> proc[p].call_sid \notin DOMAIN CALL_SESSIONS

\* a turn whose reply kept its end marker past the guard has answered, and
\* the session is gone
C18_Witness ==
    \E p \in DOMAIN proc :
        /\ TurnAnswered(p)
        /\ HasEndMarker(proc[p].final)
        /\ proc[p].should_end
        /\ proc[p].call_sid \notin DOMAIN CALL_SESSIONS

\* a request is being served by p
InRequest(p) == proc[p].route # "none" /\ proc[p].pc # "idle"

C20_InFlightTurnOfEndedCallIsNoOp ==
    [][\A p \in DOMAIN proc :
          /\ InTurn(p)
          /\ proc[p].ended_at_reply
          /\ proc'[p] # proc[p]
          => /\ \A k \in 1..Len(load_meetings(meetings_log')) :
                   load_meetings(meetings_log')[k].call_sid = proc[p].call_sid
                       => load_meetings(meetings_log')[k] \in
                             Range(Ledger) \cup Range(proc[p].log_start)
             /\ CALL_SESSIONS' = CALL_SESSIONS]_vars

\* C21: overlapping turns of one call behave as if one ran after the other,
\* so no history entry a handler appended is lost through another handler's
\* append or trim: as long as a turn that got a reply has answered and the
\* call's session is in the map, the assistant turn it appended is in the
\* session's history.
C21_NoAppendedEntryIsLost ==
    \A p \in DOMAIN proc :
        ( /\ TurnAnswered(p)
          /\ proc[p].reply # <<>>
          /\ proc[p].call_sid \in DOMAIN CALL_SESSIONS )
        => \E k \in 1..Len(CALL_SESSIONS[proc[p].call_sid].history) :
              CALL_SESSIONS[proc[p].call_sid].history[k] = Turn("assistant", proc[p].reply)

\* C22: appending never overwrites, also when two handlers append at the
\* same time: once the book_slot calls have returned, every write having
\* succeeded, the ledger holds the entry of each call that returned True.
C22_ConcurrentAppendsAreAllKept ==
    (\A q \in Threads : ~InFlight(proc[q]) /\ ~proc[q].io_failed)
        => \A p \in Threads :
              proc[p].pc = "returned" /\ proc[p].ret
                  => \E k \in 1..Len(Ledger) :
                        /\ Ledger[k].slot = proc[p].entry.slot
                        /\ Ledger[k].call_sid = proc[p].entry.call_sid

\* C23: a turn in which a write of the ledger failed does not claim success:
\* what it says does not hold "I have recorded that meeting", and the session
\* is not left with a scheduled_slot that the ledger does not hold.
C23_WriteFailureIsNotReportedAsSuccess ==
    \A p \in DOMAIN proc :
        TurnAnswered(p) /\ proc[p].io_failed
            => /\ \A k \in 1..Len(proc[p].spoken) : proc[p].spoken[k].k # "RECORDED"
               /\ proc[p].call_sid \in DOMAIN CALL_SESSIONS
                     => \/ CALL_SESSIONS[proc[p].call_sid].scheduled_slot = NoSlot
                        \/ InLedger(CALL_SESSIONS[proc[p].call_sid].scheduled_slot,
                                    meetings_log)

\* C24: reading the ledger when its file is absent, not JSON (empty, cut
\* short, garbage) or otherwise corrupt never raises and yields the empty
\* ledger: load_meetings() and get_booked_slots() return [], and
\* is_slot_available answers as it does for an empty ledger.
C24_UnreadableFileReadsAsEmptyLedger ==
    fn.op \in {"load_meetings", "get_booked_slots", "is_slot_available"}
      /\ fn.file.st # "ok"
        => /\ ~fn.raised
           /\ fn.out = <<>>
           /\ fn.op = "is_slot_available"
                 => fn.ok = is_slot_available(fn.slot, DefaultDays,
                                              [st |-> "ok", data |-> <<>>], fn.t_now)

\* C25: a turn that ends at the transcription (audio not processed, nothing
\* heard) or at a failed completion answers with an apology and "Please try
\* again for me." in a prompt that listens again: it does not report
\* should-end, the call's session is in the map afterwards, and the ledger
\* is as it was.
C25_FailedTurnApologizesAndListens ==
    [][\A p \in DOMAIN proc :
          ( /\ proc[p].pc \in {"idle", "generate"}
            /\ proc'[p].pc = "responded"
            /\ proc'[p].route = "process_recording" )
          => /\ Len(proc'[p].spoken) = 2
             /\ proc'[p].spoken[1].k \in {"COULD_NOT_UNDERSTAND", "DID_NOT_CATCH", "GLITCH"}
             /\ proc'[p].spoken[2] = Tok("PLEASE_TRY_AGAIN")
             /\ ~proc'[p].should_end
             /\ proc'[p].call_sid \in DOMAIN CALL_SESSIONS'
             /\ meetings_log' = meetings_log]_vars

\* a completion has failed in a turn of a call that had booked before: the
\* turn has answered with the apology, the session and its slot are there
C25_Witness ==
    \E p \in DOMAIN proc :
        /\ TurnAnswered(p)
        /\ proc[p].spoken = handle_transcription_error("GLITCH")
        /\ proc[p].call_sid \in DOMAIN CALL_SESSIONS
        /\ CALL_SESSIONS[proc[p].call_sid].scheduled_slot # NoSlot

\* C26: every turn is answered, and with something to say: whatever happens
\* in a turn (transcription or completion fails, a tag does not parse, a
\* booking is refused, the ledger cannot be written, nothing is left of the
\* reply once tags and the end marker are gone), the handler comes to return
\* a response whose spoken text is not empty.
C26_EveryTurnIsAnsweredWithASentence ==
    \A p \in TurnThreads :
        InTurn(p) ~> (TurnAnswered(p) /\ proc[p].spoken # <<>>)

\* a turn whose reply was the end marker alone, which the guard took away,
\* has answered
C26_Witness ==
    \E p \in DOMAIN proc :
        /\ TurnAnswered(p)
        /\ proc[p].reply = <<Tok("END")>>
        /\ proc[p].final = <<>>
        /\ proc[p].spoken # <<>>

\* C27: update_meeting(slot, call_sid, updates) returns True exactly when an
\* entry of the ledger has the slot (and the call id, when one is given);
\* the ledger then holds the same entries in the same order, the matching
\* ones with updates merged in, the others as they were.  With no matching
\* entry, or with updates None, it returns False and the file is not written.
C27_UpdateMergesMatchingEntriesOnly ==
    [][\A p \in DOMAIN proc :
          proc[p].pc # "updated" /\ proc'[p].pc = "updated"
          => IF proc[p].pc \in {"wm_open", "wm_dump"}
             THEN /\ proc'[p].changed
                  /\ \E k \in 1..Len(proc[p].seen) :
                        update_matches(proc[p].seen[k], proc[p].entry.slot, proc[p].call_sid)
                  /\ load_meetings(meetings_log') =
                        [k \in 1..Len(proc[p].seen) |->
                            IF update_matches(proc[p].seen[k], proc[p].entry.slot,
                                              proc[p].call_sid)
                            THEN merge_updates(proc[p].seen[k], proc[p].updates)
                            ELSE proc[p].seen[k]]
             ELSE /\ ~proc'[p].changed
                  /\ meetings_log' = meetings_log
                  /\ \/ ~proc'[p].updates.given
                     \/ ~\E k \in 1..Len(load_meetings(meetings_log)) :
                            update_matches(load_meetings(meetings_log)[k],
                                           proc'[p].entry.slot, proc'[p].call_sid)]_vars

\* C28: round trip.  When append_meeting has returned for an entry with
\* slot s, get_booked_slots() read from the ledger holds s, the same value,
\* and generate_available_slots computed from what was read does not hold s.
C28_AppendedSlotReadsBackAndIsTaken ==
    [][\A p \in Threads :
          ( /\ proc[p].pc \in {"wm_open", "wm_dump"}
            /\ proc[p].wm_to = "book_slot"
            /\ proc'[p].pc = "returned" )
          => LET s == proc[p].to_append.slot
                 booked == get_booked_slots(meetings_log')
             IN  /\ \E k \in 1..Len(booked) : booked[k] = s
                 /\ s \notin Range(generate_available_slots(booked, DefaultDays, now'))
      ]_vars

\* is_slot_available(slot) returns True for the call's clock and ledger
AvailableAtCall(slot) ==
    /\ ~is_slot_available_raises(slot, DefaultDays, fn.file, fn.t_now)
    /\ is_slot_available(slot, DefaultDays, fn.file, fn.t_now)

\* the requested slot moved to the day delta days after the call's clock
RepairCandidate(delta) ==
    strftime(combine(fn.t_now + delta * 1440,
                     HourOf(strptime(fn.slot)), MinuteOf(strptime(fn.slot))))

\* the days among the next 14 with the requested weekday on which the
\* requested time is available
RepairDays ==
    {delta \in 1..DefaultDays :
        /\ strptime_ok(fn.slot)
        /\ weekday(fn.t_now + delta * 1440) = weekday(strptime(fn.slot))
        /\ AvailableAtCall(RepairCandidate(delta))}

\* C29: the repair returns the slot itself when it is in the future and
\* available, otherwise the requested time on the first of the next 14 days
\* that has the requested weekday and on which is_slot_available holds, and
\* nothing when there is no such day; a slot it returns is available at the
\* call's moment and has the weekday, hour and minute of the requested one.
C29_RepairReturnsFirstAvailableSameWeekdayAndTime ==
    fn.op = "adjust"
    => /\ ~fn.raised
       /\ IF strptime_ok(fn.slot) /\ strptime(fn.slot) > fn.t_now /\ AvailableAtCall(fn.slot)
          THEN fn.adj = fn.slot
          ELSE IF RepairDays = {} THEN fn.adj = NoSlot
          ELSE \E delta \in RepairDays :
                  /\ \A other \in RepairDays : delta <= other
                  /\ fn.adj = RepairCandidate(delta)
       /\ fn.adj # NoSlot
             => /\ AvailableAtCall(fn.adj)
                /\ weekday(strptime(fn.adj)) = weekday(strptime(fn.slot))
                /\ HourOf(strptime(fn.adj)) = HourOf(strptime(fn.slot))
                /\ MinuteOf(strptime(fn.adj)) = MinuteOf(strptime(fn.slot))

\* the system turns of a history
SystemTurns(history) == {k \in 1..Len(history) : history[k].role = "system"}

\* C30: a call-start request leaves the call's history with the system turn
\* as its first entry; a history whose first entry is the system turn keeps
\* that entry first and unchanged through every step of a call-start or turn
\* request, trims included, for as long as the session is the call's; and a
\* history never holds more than one system turn.
C30_SystemTurnIsFirstAndStaysFirst ==
    [][\A c \in CallSids :
          /\ (\E p \in DOMAIN proc :
                 /\ proc[p].pc = "idle"
                 /\ proc'[p].route = "voice" /\ proc'[p].call_sid = c)
                => /\ c \in DOMAIN CALL_SESSIONS'
                   /\ CALL_SESSIONS'[c].history # <<>>
                   /\ CALL_SESSIONS'[c].history[1].role = "system"
          /\ ( /\ c \in DOMAIN CALL_SESSIONS /\ c \in DOMAIN CALL_SESSIONS'
               /\ CALL_SESSIONS[c].history # <<>>
               /\ CALL_SESSIONS[c].history[1].role = "system" )
                => /\ CALL_SESSIONS'[c].history # <<>>
                   /\ CALL_SESSIONS'[c].history[1] = CALL_SESSIONS[c].history[1]
          /\ c \in DOMAIN CALL_SESSIONS'
                => Cardinality(SystemTurns(CALL_SESSIONS'[c].history)) <= 1
      ]_vars

\* the entries of the ledger that call c has written
EntriesOfCall(file, c) ==
    {k \in 1..Len(load_meetings(file)) : load_meetings(file)[k].call_sid = c}

\* C31: scheduled_slot is a single slot for the call: once the call's session
\* has a scheduled_slot no step of a later BOOKED tag or fallback of that
\* session changes it, and the ledger never holds more than one entry of the
\* call.
C31_ScheduledSlotIsSetOncePerCall ==
    [][\A c \in CallSids :
          /\ ( /\ c \in DOMAIN CALL_SESSIONS /\ c \in DOMAIN CALL_SESSIONS'
               /\ CALL_SESSIONS[c].scheduled_slot # NoSlot )
                => CALL_SESSIONS'[c].scheduled_slot = CALL_SESSIONS[c].scheduled_slot
          /\ Cardinality(EntriesOfCall(meetings_log', c)) <= 1
      ]_vars

\* C32: log_meeting_if_needed returns at once, writing nothing, when the
\* session is already logged or has no scheduled_slot; otherwise its
\* append leaves the ledger one entry longer, the entry of the scheduled
\* slot, and meeting_logged is set; the ledger gains at most one entry over
\* all calls on the session; and meeting_logged is true only when the ledger
\* holds an entry with the session's scheduled_slot.
C32_SessionIsLoggedOnceAndOnlyWhenInLedger ==
    [][\A p \in DOMAIN proc :
          LET c == proc'[p].call_sid
          IN  /\ (proc[p].pc = "idle" /\ proc'[p].pc = "logged")
                    => /\ CALL_SESSIONS[c].meeting_logged
                          \/ CALL_SESSIONS[c].scheduled_slot = NoSlot
                       /\ meetings_log' = meetings_log
                       /\ CALL_SESSIONS' = CALL_SESSIONS
              /\ (proc[p].pc = "idle" /\ proc'[p].pc = "lm_load")
                    => /\ ~CALL_SESSIONS[c].meeting_logged
                       /\ proc'[p].to_append.slot = CALL_SESSIONS[c].scheduled_slot
              /\ (proc[p].pc \in {"wm_open", "wm_dump"} /\ proc'[p].pc = "lm_appended")
                    => load_meetings(meetings_log') = Append(proc[p].seen, proc[p].to_append)
              /\ (proc[p].pc = "lm_appended" /\ proc'[p].pc = "logged")
                    => CALL_SESSIONS'[c].meeting_logged
              /\ \A d \in DOMAIN CALL_SESSIONS' :
                    CALL_SESSIONS'[d].meeting_logged
                        => \E k \in 1..Len(load_meetings(meetings_log')) :
                              load_meetings(meetings_log')[k].slot =
                                  CALL_SESSIONS'[d].scheduled_slot
      ]_vars

\* the run of at most batch slots of the list from slot_index on
RunAt(session, batch) ==
    [i \in 1..(IF session.slot_index >= Len(session.available_slots) THEN 0
               ELSE IF Len(session.available_slots) - session.slot_index < batch
               THEN Len(session.available_slots) - session.slot_index
               ELSE batch) |-> session.available_slots[session.slot_index + i]]

\* C33: after ensure_proposed_slots(session, batch) the session's
\* proposed_slots, which is what the call returns, is the run of at most
\* batch slots of available_slots that starts at slot_index, empty when
\* slot_index is past the end; a second call without an advance in between
\* returns the same list and leaves the session as it was.
C33_ProposalIsRunOfBatchAtIndex ==
    [][\A c \in CallSids :
          fn'.op = "ensure" /\ fn'.n # fn.n
          => /\ CALL_SESSIONS'[c].proposed_slots = fn'.res
             /\ fn'.res = RunAt(CALL_SESSIONS'[c], fn'.arg)
             /\ fn.op = "ensure" => /\ fn'.res = fn.res
                                     /\ CALL_SESSIONS'[c] = CALL_SESSIONS[c]
      ]_vars

HasNamePattern(text) ==
    \E i \in 1..Len(text) : text[i].k \in {"MY_NAME_IS", "I_AM", "SHMI"}

\* the user turns among the last 8 entries of the call's history in which
\* a name search matches
NamedUserTurns ==
    {i \in 1..Len(fn.hist) :
        /\ i > Len(fn.hist) - 8
        /\ fn.hist[i].role = "user"
        /\ HasNamePattern(fn.hist[i].content)}

\* C34: a name in the BOOKED payload is kept; without one the entry gets a
\* name of the most recent user turn among the last 8 history entries in
\* which a name pattern matches, whatever the system and assistant turns
\* hold; when there is no such user turn no name is set.
C34_NameComesFromLatestUserTurnInWindow ==
    fn.op = "fill_name"
    => IF fn.name_in \notin {NoName, EmptyName} THEN fn.name_out = fn.name_in
       ELSE IF NamedUserTurns = {} THEN fn.name_out = fn.name_in
       ELSE \E i \in NamedUserTurns :
               /\ \A j \in NamedUserTurns : j <= i
               /\ \E k \in 1..Len(fn.hist[i].content) :
                     /\ fn.hist[i].content[k].k \in {"MY_NAME_IS", "I_AM", "SHMI"}
                     /\ fn.name_out = fn.hist[i].content[k].s

\* the payload had no name; the history is longer than the window, with an
\* older and a newer named user turn inside it and other turns after them,
\* and the entry has the newer one's name, not the older one's
C34_Witness ==
    /\ fn.op = "fill_name" /\ fn.name_in = NoName
    /\ Len(fn.hist) > 8
    /\ Cardinality(NamedUserTurns) = 2
    /\ \E i \in NamedUserTurns :
          /\ i < Len(fn.hist)
          /\ \A j \in NamedUserTurns : j <= i
          /\ fn.name_out = name_in_text(fn.hist[i].content)
          /\ \E j \in NamedUserTurns : fn.name_out # name_in_text(fn.hist[j].content)

\* C35: a turn that obtains a reply appends the caller's utterance to the
\* history before the model is called, so that the history the model reads
\* holds it, then appends the model's reply as it came, and no other step
\* of the turn appends anything: up to the trim, the history of the turn is
\* the one it started with, the utterance and the raw reply.
C35_TurnAppendsUtteranceThenRawReply ==
    [][\A p \in DOMAIN proc :
          /\ (proc[p].pc = "transcribe" /\ proc'[p].pc = "generate")
                => history_of(proc[p])' =
                      Append(history_of(proc[p]), Turn("user", Utterance(p)))
          /\ (proc[p].pc = "generate" /\ proc'[p].pc = "sub")
                => /\ \E k \in 1..Len(session_of(proc[p]).history) :
                          session_of(proc[p]).history[k] = Turn("user", Utterance(p))
                   /\ history_of(proc[p])' =
                          Append(history_of(proc[p]), Turn("assistant", proc'[p].reply))
          /\ ( /\ proc[p].pc \notin {"idle", "transcribe", "generate", "responded"}
               /\ proc'[p].pc # proc[p].pc )
                => \/ history_of(proc[p])' = history_of(proc[p])
                   \/ /\ proc[p].pc = "finish"
                      /\ history_of(proc[p])' = trim_history(history_of(proc[p]))
      ]_vars

\* a turn answered with one of the three failure prompts: the recording
\* could not be processed, nothing was said, or the completion failed
FailedTurn(rec) ==
    /\ rec.pc = "responded"
    /\ rec.route = "process_recording"
    /\ rec.spoken \in {handle_transcription_error("COULD_NOT_UNDERSTAND"),
                        handle_transcription_error("DID_NOT_CATCH"),
                        handle_transcription_error("GLITCH")}

\* C36: a turn that fails (nothing said, transcription error, completion
\* error) leaves the session's history, scheduled_slot and available_slots
\* as they were when the turn began.
C36_FailedTurnLeavesSessionAsItWas ==
    \A p \in DOMAIN proc :
        FailedTurn(proc[p])
            => /\ Len(session_of(proc[p]).history) = proc[p].hist_start
               /\ session_of(proc[p]).scheduled_slot = proc[p].sched_start
               /\ session_of(proc[p]).available_slots = proc[p].avail_start

\* no handler is between the open that truncates the ledger file and the
\* end of its json.dump
LedgerAtRest == \A p \in DOMAIN proc : proc[p].pc # "wm_dump"

\* every scheduled_slot of a session is the slot of a ledger entry
ScheduledSlotsInLedger ==
    \A c \in DOMAIN CALL_SESSIONS :
        CALL_SESSIONS[c].scheduled_slot # NoSlot
            => InLedger(CALL_SESSIONS[c].scheduled_slot, meetings_log)

\* C37: whenever a session holds a scheduled_slot, the ledger (no write of
\* it being under way) holds an entry of that slot; the step that sets a
\* scheduled_slot comes after a book_slot of that slot that returned True.
C37_ScheduledSlotIsInLedger ==
    [][/\ LedgerAtRest' => ScheduledSlotsInLedger'
       /\ \A c \in DOMAIN CALL_SESSIONS' :
             LET s == CALL_SESSIONS'[c].scheduled_slot
             IN  ( /\ s # NoSlot
                   /\ c \notin DOMAIN CALL_SESSIONS \/ CALL_SESSIONS[c].scheduled_slot # s )
                     => \E p \in DOMAIN proc :
                           /\ proc[p].pc = "booked"
                           /\ proc'[p].pc = "um_load"
                           /\ proc[p].call_sid = c
                           /\ proc[p].ret
                           /\ proc[p].entry.slot = s
      ]_vars

\* the session of call identifier b, or that there is none
SessionAt(sessions, b) ==
    IF b \in DOMAIN sessions THEN <<sessions[b]>> ELSE <<>>

\* C38: a call start or a turn for one call identifier never creates,
\* changes or discards the session of another: a step after which the
\* session of an identifier is not what it was is a step of a request for
\* that identifier, and it leaves alone every handler serving another.
C38_RequestTouchesOnlyItsOwnSession ==
    [][\A p \in DOMAIN proc :
          proc'[p].pc # proc[p].pc
            => LET a == IF proc[p].pc = "idle" THEN proc'[p].call_sid
                        ELSE proc[p].call_sid
               IN  /\ \A b \in (DOMAIN CALL_SESSIONS \cup DOMAIN CALL_SESSIONS') \ {a} :
                         SessionAt(CALL_SESSIONS', b) = SessionAt(CALL_SESSIONS, b)
                   /\ \A q \in DOMAIN proc \ {p} :
                         proc[q].call_sid # a => proc'[q] = proc[q]
      ]_vars

\* a turn of one call has ended that call and discarded its session while
\* the other call's session, with its greeting, is in the map
C38_Witness ==
    \E p \in DOMAIN proc :
        /\ TurnAnswered(p)
        /\ proc[p].should_end
        /\ proc[p].call_sid \notin DOMAIN CALL_SESSIONS
        /\ \E b \in DOMAIN CALL_SESSIONS :
              /\ b # proc[p].call_sid
              /\ Len(CALL_SESSIONS[b].history) >= 2

====
